---- MODULE Spec2Model ----
(***************************************************************************)
(* bug65: a 6502/65C02 simulator (Cpu6502, Memory), its sim65 host ABI     *)
(* (Bug65Host) and the debug adapter that drives them in slices            *)
(* (Bug65DebugSession.runLoop with its StepMode classes).                  *)
(*                                                                         *)
(* The guest machine is threaded through the operators as a record m with  *)
(* the fields of Cpu6502, Memory and Bug65Host; one iteration of runLoop's *)
(* for loop is one step of the model, and no request, timer or terminal    *)
(* input is taken while a slice is executing (JavaScript runs a callback   *)
(* to completion).                                                         *)
(***************************************************************************)
EXTENDS Integers, Sequences, FiniteSets, TLC

VARIABLES
    A, X, Y, SP, PC, Status, cycles,   \* Cpu6502 registers and cycle counter
    cpuType,                           \* Cpu6502._cpuType
    breakpoints,                       \* Cpu6502.breakpoints: addr -> set of groups
    mem,                               \* Memory.data, the non-zero cells only
    waitingForInput,                   \* Bug65Host.waitingForInput
    inputBuffer,                       \* ConsoleStrategy.inputBuffer
    nextFd,                            \* Bug65Host.nextFd
    commandLineArgs,                   \* Bug65Host.commandLineArgs, strings of char codes
    fsError,                           \* the host file system refuses the next fs call
    fds,                               \* Bug65Host.fds: fd -> strategy
    stepMode,                          \* Bug65DebugSession._stepMode
    stopOnEntry, configDone,           \* Bug65DebugSession._stopOnEntry, configurationDone seen
    debugInfo,                         \* Bug65DebugSession._debugInfo: its spans, or <<>>
    loop,                              \* the runLoop invocation in progress
    timers,                            \* pending setTimeout(() => runLoop(false), 1)
    lastEvent,                         \* the last event sent to the client
    terminated,                        \* a TerminatedEvent has been sent
    exitCode,                          \* the code onExit was called with, or NoExit
    thrown,                            \* an Error left runLoop uncaught
    last                               \* what the most recent cpu.step / handler did

cpuVars  == <<A, X, Y, SP, PC, Status, cycles>>
hostVars == <<waitingForInput, inputBuffer, fds, nextFd, commandLineArgs, fsError>>
vars == <<A, X, Y, SP, PC, Status, cycles, cpuType, breakpoints, mem,
          waitingForInput, inputBuffer, fds, nextFd, commandLineArgs, fsError,
          stepMode, stopOnEntry, configDone,
          debugInfo, loop, timers, lastEvent, terminated, exitCode, thrown, last>>

-----------------------------------------------------------------------------
(* Bounds of the exploration *)

\* a new slice chain is started only while the cycle counter is below this
MaxCycles == 36
\* runLoop's batch (1000 instructions per slice in the source), scaled down
batch == 3
\* longest console input line delivered at once, and most bytes left unread
MaxInput == 2
\* most runLoop timers pending when one more chain is started by a request
MaxChains == 1

-----------------------------------------------------------------------------
(* Flags (cpu_interface.ts) *)

FlagCarry == 1
FlagZero == 2
FlagInterruptDisable == 4
FlagDecimal == 8
FlagBreak == 16
FlagUnused == 32
FlagOverflow == 64
FlagNegative == 128

\* (v & flag) !== 0 for a single-bit flag
getFlag(v, flag) == (v \div flag) % 2 = 1

\* Cpu6502.setFlag: Status |= flag or Status &= ~flag
setFlag(v, flag, value) ==
    IF value THEN (IF getFlag(v, flag) THEN v ELSE v + flag)
             ELSE (IF getFlag(v, flag) THEN v - flag ELSE v)

-----------------------------------------------------------------------------
(* Memory: a 64 KiB array, zero-filled; only the non-zero cells are kept *)

\* the value of a one-element set: binds an intermediate result once
Only(S) == CHOOSE x \in S : TRUE

\* data[address & 0xFFFF]
read(mm, address) ==
    LET k == address % 65536 IN IF k \in DOMAIN mm THEN mm[k] ELSE 0

\* write that indexes the array with the address as given
write_unmasked(mm, address, value) ==
    [a \in (DOMAIN mm) \cup {address} |-> IF a = address THEN value % 256 ELSE mm[a]]

\* data[address & 0xFFFF] = value & 0xFF
write(mm, address, value) ==
    Only({IF v = 0
          THEN [a \in (DOMAIN d) \ {k} |-> d[a]]
          ELSE [a \in (DOMAIN d) \cup {k} |-> IF a = k THEN v ELSE d[a]] :
          d \in {mm}, k \in {address % 65536}, v \in {value % 256}})

readWord(mm, address) == read(mm, address + 1) * 256 + read(mm, address)

\* write(address, value & 0xFF); write(address + 1, (value >> 8) & 0xFF)
writeWord(mm, address, value) ==
    write(write(mm, address, value % 256), address + 1, (value \div 256) % 256)

\* bytes laid out from base, as Memory.load does
Bytes(base, bs) == [a \in base .. (base + Len(bs) - 1) |-> bs[a - base + 1]]

-----------------------------------------------------------------------------
(* The guest machine: the fields of Cpu6502, Memory and Bug65Host, and the  *)
(* events the host callbacks send                                           *)

\* onExit has not been called
NoExit == "none"

Machine ==
    [A |-> A, X |-> X, Y |-> Y, SP |-> SP, PC |-> PC, Status |-> Status,
     cycles |-> cycles, cpuType |-> cpuType, mem |-> mem,
     waitingForInput |-> waitingForInput, inputBuffer |-> inputBuffer, fds |-> fds,
     nextFd |-> nextFd, commandLineArgs |-> commandLineArgs, fsError |-> fsError,
     lastEvent |-> lastEvent, terminated |-> terminated, exitCode |-> exitCode]

-----------------------------------------------------------------------------
(* Opcode table (opcodes.ts): the entries of the opcodes the guest programs *)
(* of this model use; every other byte has no entry here                    *)

NoEntry == [name |-> "none"]

OPCODES ==
    [op \in 0 .. 255 |->
        CASE op = 0   -> [name |-> "BRK_imp", mode |-> "imp", cycles |-> 7, cpu |-> "6502"]
          [] op = 16  -> [name |-> "BPL_rel", mode |-> "rel", cycles |-> 2, cpu |-> "6502"]
          [] op = 32  -> [name |-> "JSR_abs", mode |-> "abs", cycles |-> 6, cpu |-> "6502"]
          [] op = 40  -> [name |-> "PLP_imp", mode |-> "imp", cycles |-> 4, cpu |-> "6502"]
          [] op = 48  -> [name |-> "BMI_rel", mode |-> "rel", cycles |-> 2, cpu |-> "6502"]
          [] op = 64  -> [name |-> "RTI_imp", mode |-> "imp", cycles |-> 6, cpu |-> "6502"]
          [] op = 76  -> [name |-> "JMP_abs", mode |-> "abs", cycles |-> 3, cpu |-> "6502"]
          [] op = 80  -> [name |-> "BVC_rel", mode |-> "rel", cycles |-> 2, cpu |-> "6502"]
          [] op = 96  -> [name |-> "RTS_imp", mode |-> "imp", cycles |-> 6, cpu |-> "6502"]
          [] op = 105 -> [name |-> "ADC_imm", mode |-> "imm", cycles |-> 2, cpu |-> "6502"]
          [] op = 108 -> [name |-> "JMP_ind", mode |-> "ind", cycles |-> 5, cpu |-> "6502"]
          [] op = 112 -> [name |-> "BVS_rel", mode |-> "rel", cycles |-> 2, cpu |-> "6502"]
          [] op = 128 -> [name |-> "BRA_rel", mode |-> "rel", cycles |-> 2, cpu |-> "65C02"]
          [] op = 144 -> [name |-> "BCC_rel", mode |-> "rel", cycles |-> 2, cpu |-> "6502"]
          [] op = 162 -> [name |-> "LDX_imm", mode |-> "imm", cycles |-> 2, cpu |-> "6502"]
          [] op = 169 -> [name |-> "LDA_imm", mode |-> "imm", cycles |-> 2, cpu |-> "6502"]
          [] op = 176 -> [name |-> "BCS_rel", mode |-> "rel", cycles |-> 2, cpu |-> "6502"]
          [] op = 208 -> [name |-> "BNE_rel", mode |-> "rel", cycles |-> 2, cpu |-> "6502"]
          [] op = 233 -> [name |-> "SBC_imm", mode |-> "imm", cycles |-> 2, cpu |-> "6502"]
          [] op = 234 -> [name |-> "NOP_imp", mode |-> "imp", cycles |-> 2, cpu |-> "6502"]
          [] op = 240 -> [name |-> "BEQ_rel", mode |-> "rel", cycles |-> 2, cpu |-> "6502"]
          [] OTHER    -> NoEntry]

-----------------------------------------------------------------------------
(* Cpu6502 *)

\* this.memory.write(0x100 + this.SP, value); this.SP = (this.SP - 1) & 0xFF
push(m, value) ==
    Only({[m0 EXCEPT !.mem = write(m0.mem, 256 + m0.SP, value),
                     !.SP = (m0.SP - 1) % 256] : m0 \in {m}})

\* push((value >> 8) & 0xFF); push(value & 0xFF)
pushWord(m, value) == push(push(m, (value \div 256) % 256), value % 256)

\* popWord: low = pop(), high = pop(); each pop increments SP modulo 256 first
popWord(m) ==
    LET lowSP  == (m.SP + 1) % 256
        highSP == (lowSP + 1) % 256
    IN  [m |-> [m EXCEPT !.SP = highSP],
         val |-> read(m.mem, 256 + highSP) * 256 + read(m.mem, 256 + lowSP)]

LDA(m, value) ==
    [m EXCEPT !.A = value,
              !.Status = setFlag(setFlag(@, FlagZero, value = 0),
                                 FlagNegative, getFlag(value, FlagNegative))]

LDX(m, value) ==
    [m EXCEPT !.X = value,
              !.Status = setFlag(setFlag(@, FlagZero, value = 0),
                                 FlagNegative, getFlag(value, FlagNegative))]

\* ADC that leaves the carry-in out of the sum
ADC_noCarryIn(m, value) ==
    LET sum == m.A + value
        a == sum % 256
    IN  [m EXCEPT !.A = a,
                  !.Status = setFlag(setFlag(setFlag(setFlag(@, FlagCarry, sum > 255),
                                 FlagOverflow,
                                 /\ getFlag(m.A, FlagNegative) = getFlag(value, FlagNegative)
                                 /\ getFlag(m.A, FlagNegative) # getFlag(sum, FlagNegative)),
                                             FlagZero, a = 0),
                                     FlagNegative, getFlag(a, FlagNegative))]

\* ADC: binary also when the Decimal flag is set; sum = A + value + carry
ADC(m, value) ==
    LET sum == m.A + value + (IF getFlag(m.Status, FlagCarry) THEN 1 ELSE 0)
        a == sum % 256
        overflow == /\ getFlag(m.A, FlagNegative) = getFlag(value, FlagNegative)
                    /\ getFlag(m.A, FlagNegative) # getFlag(sum, FlagNegative)
    IN  [m EXCEPT !.A = a,
                  !.Status = setFlag(setFlag(setFlag(setFlag(@, FlagCarry, sum > 255),
                                                     FlagOverflow, overflow),
                                             FlagZero, a = 0),
                                     FlagNegative, getFlag(a, FlagNegative))]

\* SBC adding the two's complement of the value
SBC_twosComplement(m, value) == ADC(m, (256 - value) % 256)

\* SBC: this.ADC(value ^ 0xFF)
SBC(m, value) == ADC(m, 255 - value)

\* addrAbsolute: low = read(PC++), high = read(PC++)
addrAbsolute(m) ==
    [m |-> [m EXCEPT !.PC = @ + 2],
     val |-> read(m.mem, m.PC + 1) * 256 + read(m.mem, m.PC)]

\* addrIndirect: the pointer's high byte is read from the pointer's own page
addrIndirect(m) ==
    LET ptr == read(m.mem, m.PC + 1) * 256 + read(m.mem, m.PC)
    IN  [m |-> [m EXCEPT !.PC = @ + 2],
         val |-> read(m.mem, (ptr \div 256) * 256 + ((ptr + 1) % 256)) * 256
                    + read(m.mem, ptr)]

\* pop: SP = (SP + 1) & 0xFF, then the byte at $0100 + SP
pop(m) ==
    [m |-> [m EXCEPT !.SP = (m.SP + 1) % 256],
     val |-> read(m.mem, 256 + ((m.SP + 1) % 256))]

\* PLP: Status = (p & ~Break) | Unused
PLP(m) ==
    LET p == pop(m)
    IN  [p.m EXCEPT !.Status = setFlag(setFlag(p.val, FlagBreak, FALSE), FlagUnused, TRUE)]

RTI(m) == LET p == popWord(PLP(m)) IN [p.m EXCEPT !.PC = p.val]

\* setRegisters(regs): the fields regs has are stored as they are
setRegisters(m, regs) ==
    LET get(field, old) == IF field \in DOMAIN regs THEN regs[field] ELSE old
    IN  [m EXCEPT !.A = get("A", @), !.X = get("X", @), !.Y = get("Y", @),
                  !.PC = get("PC", @), !.SP = get("SP", @),
                  !.Status = get("Status", @)]

JSR(m, addr) == [pushWord(m, m.PC - 1) EXCEPT !.PC = addr]

RTS(m) == LET p == popWord(m) IN [p.m EXCEPT !.PC = p.val + 1]

BRK(m) ==
    LET m1 == [m EXCEPT !.PC = @ + 1]
        m2 == pushWord(m1, m1.PC)
        m3 == push(m2, setFlag(setFlag(m2.Status, FlagBreak, TRUE), FlagUnused, TRUE))
    IN  [m3 EXCEPT !.Status = setFlag(@, FlagInterruptDisable, TRUE),
                   !.PC = readWord(m3.mem, 65534)]

branch(m, condition) ==
    LET offset == read(m.mem, m.PC)
        signedOffset == IF offset > 127 THEN offset - 256 ELSE offset
        oldPC == m.PC + 1
        newPC == (oldPC + signedOffset) % 65536
    IN  IF condition
        THEN [m EXCEPT !.PC = newPC,
                       !.cycles = @ + 3 +
                           (IF (oldPC \div 256) % 256 # newPC \div 256 THEN 1 ELSE 0)]
        ELSE [m EXCEPT !.PC = oldPC, !.cycles = @ + 2]

\* executeOpcode past its checks: this.cycles += entry.cycles, then the
\* switch on the opcode
execute(m, entry) ==
    LET m1 == [m EXCEPT !.cycles = @ + entry.cycles] IN
    CASE entry.name = "NOP_imp" -> m1
      [] entry.name = "LDA_imm" -> LDA([m1 EXCEPT !.PC = @ + 1], read(m1.mem, m1.PC))
      [] entry.name = "LDX_imm" -> LDX([m1 EXCEPT !.PC = @ + 1], read(m1.mem, m1.PC))
      [] entry.name = "ADC_imm" -> ADC([m1 EXCEPT !.PC = @ + 1], read(m1.mem, m1.PC))
      [] entry.name = "SBC_imm" -> SBC([m1 EXCEPT !.PC = @ + 1], read(m1.mem, m1.PC))
      [] entry.name = "BPL_rel" -> branch(m1, ~getFlag(m1.Status, FlagNegative))
      [] entry.name = "BMI_rel" -> branch(m1, getFlag(m1.Status, FlagNegative))
      [] entry.name = "BVC_rel" -> branch(m1, ~getFlag(m1.Status, FlagOverflow))
      [] entry.name = "BVS_rel" -> branch(m1, getFlag(m1.Status, FlagOverflow))
      [] entry.name = "BCC_rel" -> branch(m1, ~getFlag(m1.Status, FlagCarry))
      [] entry.name = "BCS_rel" -> branch(m1, getFlag(m1.Status, FlagCarry))
      [] entry.name = "BNE_rel" -> branch(m1, ~getFlag(m1.Status, FlagZero))
      [] entry.name = "BEQ_rel" -> branch(m1, getFlag(m1.Status, FlagZero))
      [] entry.name = "BRA_rel" -> branch(m1, TRUE)
      [] entry.name = "JMP_abs" -> LET a == addrAbsolute(m1) IN [a.m EXCEPT !.PC = a.val]
      [] entry.name = "JMP_ind" -> LET a == addrIndirect(m1) IN [a.m EXCEPT !.PC = a.val]
      [] entry.name = "PLP_imp" -> PLP(m1)
      [] entry.name = "RTI_imp" -> RTI(m1)
      [] entry.name = "JSR_abs" -> LET a == addrAbsolute(m1) IN JSR(a.m, a.val)
      [] entry.name = "RTS_imp" -> RTS(m1)
      [] entry.name = "BRK_imp" -> BRK(m1)

\* executeOpcode without the 65C02 check
executeOpcode_anyCpu(m, opcode) ==
    IF OPCODES[opcode] = NoEntry THEN [m |-> m, thrown |-> TRUE]
    ELSE [m |-> execute(m, OPCODES[opcode]), thrown |-> FALSE]

\* executeOpcode: m is the machine after the opcode fetch; thrown is the
\* Error "Unknown opcode"
executeOpcode(m, opcode) ==
    LET entry == OPCODES[opcode] IN
    IF entry = NoEntry THEN [m |-> m, thrown |-> TRUE]
    ELSE IF entry.cpu = "65C02" /\ m.cpuType # "65C02" THEN [m |-> m, thrown |-> TRUE]
    ELSE [m |-> execute(m, entry), thrown |-> FALSE]

-----------------------------------------------------------------------------
(* Bug65Host *)

ADDR_LSEEK == 65521
ADDR_REMOVE == 65522
ADDR_MAPERRNO == 65523
ADDR_OPEN == 65524
ADDR_CLOSE == 65525
ADDR_READ == 65526
ADDR_WRITE == 65527
ADDR_ARGS == 65528
ADDR_EXIT == 65529

\* Bug65Host.spAddress: the zero-page address of the software-stack pointer
spAddress == 0

\* the shared ConsoleStrategy of the constructor, and a FileStrategy over a
\* host file opened with fsFlags and read up to pos
ConsoleStrategy == [kind |-> "console", fsFlags |-> "", pos |-> 0]
FileStrategy(fsFlags, pos) == [kind |-> "file", fsFlags |-> fsFlags, pos |-> pos]

\* the fd table after the constructor
StandardFds == (0 :> ConsoleStrategy) @@ (1 :> ConsoleStrategy) @@ (2 :> ConsoleStrategy)

\* launchRequest: commandLineArgs = [programPath, ...args], here "p" alone
ProgramPath == <<112>>

\* what every host file holds
FileData == <<72, 73>>

getAX(m) == m.X * 256 + m.A

\* regs.A = val & 0xFF; regs.X = (val >> 8) & 0xFF; cpu.setRegisters(regs)
setAX(m, val) == [m EXCEPT !.A = val % 256, !.X = (val \div 256) % 256]

\* the software-stack pointer read from the two zero-page bytes
softSP(m) == read(m.mem, spAddress + 1) * 256 + read(m.mem, spAddress)

RECURSIVE readBytes(_, _, _)
\* val |= memory.read(sp + i) << (i * 8), for i < bytes
readBytes(mm, addr, bytes) ==
    IF bytes = 0 THEN 0
    ELSE read(mm, addr) + 256 * readBytes(mm, addr + 1, bytes - 1)

popParam(m, bytes) ==
    Only({[m |-> [m0 EXCEPT !.mem = write(write(@, spAddress, ((sp + bytes) % 65536) % 256),
                                          spAddress + 1,
                                          (((sp + bytes) % 65536) \div 256) % 256)],
           val |-> readBytes(m0.mem, sp, bytes)] :
          m0 \in {m}, sp \in {softSP(m)}})

peekParam(m, bytes, offsetBytes) ==
    readBytes(m.mem, (softSP(m) + offsetBytes) % 65536, bytes)

RECURSIVE writeBytes(_, _, _)
\* memory.write(bufAddr + i, data[i]) for each byte of data, in order
writeBytes(mm, addr, data) ==
    IF data = <<>> THEN mm
    ELSE writeBytes(write(mm, addr, Head(data)), addr + 1, Tail(data))

\* ConsoleStrategy.read: the first min(count, length) buffered bytes
ConsoleStrategy_read(buffer, count) ==
    LET len == IF count < Len(buffer) THEN count ELSE Len(buffer)
    IN  [data |-> SubSeq(buffer, 1, len), rest |-> SubSeq(buffer, len + 1, Len(buffer))]

\* FileStrategy.read: fs.readSync at the file's position, which advances
FileStrategy_read(strat, count) ==
    LET end == IF strat.pos + count < Len(FileData) THEN strat.pos + count
               ELSE Len(FileData)
    IN  [data |-> SubSeq(FileData, strat.pos + 1, end),
         strat |-> [strat EXCEPT !.pos = IF end > strat.pos THEN end ELSE strat.pos]]

\* pvRead popping the parameters before it decides to block
pvRead_popsOnEntry(m) ==
    LET m2 == popParam(popParam(m, 2).m, 2).m IN
    IF /\ peekParam(m, 2, 2) = 0 /\ getAX(m) > 0 /\ 0 \in DOMAIN m.fds
       /\ m.inputBuffer = <<>>
    THEN [m |-> [m2 EXCEPT !.waitingForInput = TRUE], halt |-> TRUE,
          hook |-> "read_blocked"]
    ELSE [m |-> [setAX(m2, 65535) EXCEPT !.waitingForInput = FALSE],
          halt |-> FALSE, hook |-> "read_failed"]

\* pvRead: halt is its return value (true: block, parameters not popped)
pvRead(m) ==
    LET count == getAX(m)
        bufAddr == peekParam(m, 2, 0)
        fd == peekParam(m, 2, 2)
        \* after popParam(2) twice: m2 is the machine, r what strategy.read gave
        deliver(m2, r) ==
            [m |-> [setAX([m2 EXCEPT !.inputBuffer = r.rest,
                                     !.mem = writeBytes(@, bufAddr, r.data)],
                          Len(r.data)) EXCEPT !.waitingForInput = FALSE],
             halt |-> FALSE, hook |-> "read_done"]
        \* the same for a FileStrategy, which r.strat replaces in the table
        fromFile(m2, r) ==
            [m |-> [setAX([m2 EXCEPT !.fds[fd] = r.strat,
                                     !.mem = writeBytes(@, bufAddr, r.data)],
                          Len(r.data)) EXCEPT !.waitingForInput = FALSE],
             halt |-> FALSE, hook |-> "read_done"]
        \* strat.read threw: caught in pvRead
        failed(m2) ==
            [m |-> [setAX(m2, 65535) EXCEPT !.waitingForInput = FALSE],
             halt |-> FALSE, hook |-> "read_failed"]
        badFd(m2) ==
            [m |-> [setAX(m2, 65535) EXCEPT !.waitingForInput = FALSE],
             halt |-> FALSE, hook |-> "read_badfd"]
    IN  IF fd \in DOMAIN m.fds
        THEN IF fd = 0 /\ count > 0 /\ m.fds[fd] = ConsoleStrategy /\ m.inputBuffer = <<>>
             THEN [m |-> [m EXCEPT !.waitingForInput = TRUE], halt |-> TRUE,
                   hook |-> "read_blocked"]
             ELSE IF m.fds[fd].kind = "console"
             THEN Only({deliver(m2, r) :
                          m2 \in {popParam(popParam(m, 2).m, 2).m},
                          r \in {ConsoleStrategy_read(m.inputBuffer, count)}})
             ELSE IF m.fsError
             THEN Only({failed(m2) : m2 \in {popParam(popParam(m, 2).m, 2).m}})
             ELSE Only({fromFile(m2, r) :
                          m2 \in {popParam(popParam(m, 2).m, 2).m},
                          r \in {FileStrategy_read(m.fds[fd], count)}})
        ELSE Only({badFd(m2) : m2 \in {popParam(popParam(m, 2).m, 2).m}})

\* pvWrite reporting count whatever happened
pvWrite_countAlways(m) == setAX(popParam(popParam(m, 2).m, 2).m, getAX(m))

\* pvWrite: a console strategy sends every byte to onWrite and a file strategy
\* calls fs.writeSync, the result is count; when writeSync throws, the catch
\* of handleTrap sets AX to $FFFF
pvWrite(m) ==
    LET count == getAX(m)
        result(p2) ==
            IF p2.val \in DOMAIN m.fds
            THEN IF m.fds[p2.val].kind = "file" /\ m.fsError
                 THEN setAX(p2.m, 65535)
                 ELSE setAX(p2.m, count)
            ELSE setAX(p2.m, 65535)
    IN  Only({result(p2) : p2 \in {popParam(popParam(m, 2).m, 2)}})

\* pvLseek: no strategy is seekable, lseek returns -1
pvLseek(m) == setAX(popParam(popParam(m, 4).m, 2).m, 65535)

\* pvClose: close returns 0 and the descriptor leaves the table; when
\* fs.closeSync throws, the catch of handleTrap sets AX to $FFFF
pvClose(m) ==
    LET fd == getAX(m) IN
    IF fd \in DOMAIN m.fds
    THEN IF m.fds[fd].kind = "file" /\ m.fsError
         THEN setAX(m, 65535)
         ELSE setAX([m EXCEPT !.fds = [f \in (DOMAIN m.fds) \ {fd} |-> m.fds[f]]], 0)
    ELSE setAX(m, 65535)

pvMapErrno(m) == setAX(m, 0)

\* pushBuffer: sp = (sp - data.length) & 0xFFFF, the bytes written from sp
\* up, the new sp stored and returned
pushBuffer(m, data) ==
    Only({[m |-> [m EXCEPT !.mem = write(write(writeBytes(@, sp, data),
                                               spAddress, sp % 256),
                                         spAddress + 1, (sp \div 256) % 256)],
           sp |-> sp] :
          sp \in {(softSP(m) - Len(data)) % 65536}})

\* the fs flags string pvOpen derives from the guest's flags
fsFlagsOf(flags) ==
    LET access == flags % 4
        creat == (flags \div 16) % 2 = 1
        append == (flags \div 64) % 2 = 1
        f0 == CASE access = 1 -> "r" [] access = 2 -> "w" [] access = 3 -> "r+"
                [] OTHER -> ""
        f1 == IF creat THEN (CASE access = 2 -> "w" [] access = 3 -> "w+" [] OTHER -> f0)
              ELSE f0
        f2 == IF append THEN (CASE access = 2 -> "a" [] access = 3 -> "a+" [] OTHER -> f1)
              ELSE f1
    IN  IF f2 = "" THEN "r" ELSE f2

\* pvOpen: mode, flags and the name address are popped; fs.openSync gives a
\* descriptor or throws
pvOpen(m) ==
    LET opened(p3, flags) ==
            IF m.fsError THEN setAX(p3.m, 65535)
            ELSE setAX([p3.m EXCEPT !.fds = (m.nextFd :> FileStrategy(fsFlagsOf(flags), 0)) @@ @,
                                    !.nextFd = @ + 1],
                       m.nextFd)
    IN  Only({opened(popParam(p2.m, 2), p2.val) :
                p2 \in {popParam(popParam(m, 2).m, 2)}})

\* pvRemove: fs.unlinkSync of the path at AX succeeds or throws
pvRemove(m) == IF m.fsError THEN setAX(m, 65535) ELSE setAX(m, 0)

\* the bytes pvArgs pushes for one argument: Uint8Array keeps the low eight
\* bits of each char code, and a NUL follows
argBytes(arg) == [i \in 1 .. Len(arg) + 1 |-> IF i <= Len(arg) THEN arg[i] % 256 ELSE 0]

\* step 1 of pvArgs: the strings pushed in order, addrs their addresses
RECURSIVE pushStrings(_, _, _)
pushStrings(m, args, addrs) ==
    IF args = <<>> THEN [m |-> m, stringAddrs |-> addrs]
    ELSE Only({pushStrings(p.m, Tail(args), Append(addrs, p.sp)) :
                 p \in {pushBuffer(m, argBytes(Head(args)))}})

\* step 2 of pvArgs: the pointers pushed from stringAddrs[i] down to the first
RECURSIVE pushPointers(_, _, _)
pushPointers(m, stringAddrs, i) ==
    IF i = 0 THEN m
    ELSE pushPointers(pushBuffer(m, <<stringAddrs[i] % 256,
                                      (stringAddrs[i] \div 256) % 256>>).m,
                      stringAddrs, i - 1)

\* pvArgs: strings, NULL, pointers, then argv stored at the address in AX and
\* argc returned
pvArgs(m) ==
    LET argvPtrAddr == getAX(m)
        stored(m2) ==
            [m2 EXCEPT !.mem = write(write(@, argvPtrAddr, softSP(m2) % 256),
                                     argvPtrAddr + 1, (softSP(m2) \div 256) % 256)]
    IN  Only({setAX(stored(m2), Len(m.commandLineArgs)) :
                m2 \in {Only({pushPointers(pushBuffer(s.m, <<0, 0>>).m, s.stringAddrs,
                                           Len(s.stringAddrs)) :
                              s \in {pushStrings(m, m.commandLineArgs, <<>>)}})}})

\* handleTrap with a read hook that never clears waitingForInput
handleTrap_flagKept(m, pc) ==
    IF pc = ADDR_EXIT
    THEN [m |-> [m EXCEPT !.lastEvent = "terminated", !.terminated = TRUE,
                          !.exitCode = m.A],
          halt |-> TRUE, hook |-> "exit"]
    ELSE CASE pc = ADDR_CLOSE -> [m |-> pvClose(m), halt |-> FALSE, hook |-> "close"]
           [] pc = ADDR_READ -> [pvRead(m) EXCEPT !.m.waitingForInput = TRUE]
           [] pc = ADDR_WRITE -> [m |-> pvWrite(m), halt |-> FALSE, hook |-> "write"]
           [] pc = ADDR_LSEEK -> [m |-> pvLseek(m), halt |-> FALSE, hook |-> "lseek"]
           [] pc = ADDR_MAPERRNO -> [m |-> pvMapErrno(m), halt |-> FALSE, hook |-> "maperrno"]
           [] pc = ADDR_OPEN -> [m |-> pvOpen(m), halt |-> FALSE, hook |-> "open"]
           [] pc = ADDR_REMOVE -> [m |-> pvRemove(m), halt |-> FALSE, hook |-> "remove"]
           [] pc = ADDR_ARGS -> [m |-> pvArgs(m), halt |-> FALSE, hook |-> "args"]
           [] OTHER -> [m |-> m, halt |-> FALSE, hook |-> "none"]

\* handleTrap with an exit hook that reports code 0
handleTrap_exitZero(m, pc) ==
    IF pc = ADDR_EXIT
    THEN [m |-> [m EXCEPT !.lastEvent = "terminated", !.terminated = TRUE,
                          !.exitCode = 0],
          halt |-> TRUE, hook |-> "exit"]
    ELSE [m |-> m, halt |-> FALSE, hook |-> "none"]

\* handleTrap: halt is its return value. onExit(A) sends the exit code and the
\* TerminatedEvent.
handleTrap(m, pc) ==
    IF pc = ADDR_EXIT
    THEN [m |-> [m EXCEPT !.lastEvent = "terminated", !.terminated = TRUE,
                          !.exitCode = m.A],
          halt |-> TRUE, hook |-> "exit"]
    ELSE CASE pc = ADDR_CLOSE -> [m |-> pvClose(m), halt |-> FALSE, hook |-> "close"]
           [] pc = ADDR_READ -> pvRead(m)
           [] pc = ADDR_WRITE -> [m |-> pvWrite(m), halt |-> FALSE, hook |-> "write"]
           [] pc = ADDR_LSEEK -> [m |-> pvLseek(m), halt |-> FALSE, hook |-> "lseek"]
           [] pc = ADDR_MAPERRNO -> [m |-> pvMapErrno(m), halt |-> FALSE, hook |-> "maperrno"]
           [] pc = ADDR_OPEN -> [m |-> pvOpen(m), halt |-> FALSE, hook |-> "open"]
           [] pc = ADDR_REMOVE -> [m |-> pvRemove(m), halt |-> FALSE, hook |-> "remove"]
           [] pc = ADDR_ARGS -> [m |-> pvArgs(m), halt |-> FALSE, hook |-> "args"]
           [] OTHER -> [m |-> m, halt |-> FALSE, hook |-> "none"]

\* ConsoleStrategy.addInput through Bug65Host.writeInput: stdin must still be
\* in the table
writeInput(m, data) ==
    IF 0 \in DOMAIN m.fds /\ m.fds[0] = ConsoleStrategy
    THEN [m EXCEPT !.inputBuffer = @ \o data]
    ELSE m

-----------------------------------------------------------------------------
(* Cpu6502 breakpoints: a map addr -> set of groups; undefined is NoGroup *)

NoGroup == "<undefined>"

addBreakpoint(bps, addr, group) ==
    IF addr \in DOMAIN bps
    THEN [bps EXCEPT ![addr] = @ \cup {group}]
    ELSE (addr :> {group}) @@ bps

\* removeBreakpoint without the groups.size === 0 deletion
removeBreakpoint_keepsEmpty(bps, addr, group) ==
    IF addr \in DOMAIN bps THEN [bps EXCEPT ![addr] = @ \ {group}] ELSE bps

removeBreakpoint(bps, addr, group) ==
    IF addr \in DOMAIN bps
    THEN IF bps[addr] \ {group} = {}
         THEN [a \in (DOMAIN bps) \ {addr} |-> bps[a]]
         ELSE [bps EXCEPT ![addr] = @ \ {group}]
    ELSE bps

\* if (group) is false for undefined and for the empty string
clearBreakpoints(bps, group) ==
    IF group # NoGroup /\ group # ""
    THEN LET keep == {a \in DOMAIN bps : bps[a] \ {group} # {}}
         IN  [a \in keep |-> bps[a] \ {group}]
    ELSE << >>

-----------------------------------------------------------------------------
(* Cpu6502.step: ret is the cycle count returned *)

\* step from the trap hook on: t is what onTrap did, e what executeOpcode did
stepFromTrap(m) ==
    LET executed(t, e) ==
            [m |-> e.m, ret |-> e.m.cycles - t.m.cycles, thrown |-> e.thrown,
             how |-> IF e.thrown THEN "error" ELSE "executed", hook |-> t.hook]
        trapped(t) ==
            IF t.halt
            THEN [m |-> t.m, ret |-> 0, thrown |-> FALSE, how |-> "trap", hook |-> t.hook]
            ELSE Only({executed(t, e) :
                          e \in {executeOpcode([t.m EXCEPT !.PC = @ + 1],
                                               read(t.m.mem, t.m.PC))}})
    IN  Only({trapped(t) : t \in {handleTrap(m, m.PC)}})

\* step without the breakpoint check
step_noBreakpointCheck(m, bps, ignoreBreakpoint) == stepFromTrap(m)

step(m, bps, ignoreBreakpoint) ==
    IF ~ignoreBreakpoint /\ m.PC \in DOMAIN bps
    THEN [m |-> m, ret |-> 0, thrown |-> FALSE, how |-> "breakpoint", hook |-> "none"]
    ELSE stepFromTrap(m)

-----------------------------------------------------------------------------
(* Step modes (bug65Debug.ts). A mode is a record; NoMode is undefined. *)

NoMode == [kind |-> "None"]
StepInMode(allowedRanges) == [kind |-> "StepIn", allowedRanges |-> allowedRanges]
NextMode(allowedRanges) == [kind |-> "Next", allowedRanges |-> allowedRanges]
RunToMode(targetPC, restoreMode) ==
    [kind |-> "RunTo", targetPC |-> targetPC, restoreMode |-> restoreMode]
StepOutMode(targetSP) == [kind |-> "StepOut", targetSP |-> targetSP]

\* pc >= range.start && pc <= range.end for some range of the list
InRanges(allowedRanges, pc) ==
    \E i \in 1 .. Len(allowedRanges) :
        pc >= allowedRanges[i].start /\ pc <= allowedRanges[i].end

\* StepInMode.step that never leaves the mode
StepInMode_step_neverStops(mode, pc, opcode) == mode

StepInMode_step(mode, pc, opcode) ==
    IF InRanges(mode.allowedRanges, pc) THEN mode ELSE NoMode

\* NextMode.step without the JSR case
NextMode_step_noJsr(mode, pc, opcode) ==
    IF InRanges(mode.allowedRanges, pc) THEN mode ELSE NoMode

NextMode_step(mode, pc, opcode) ==
    IF InRanges(mode.allowedRanges, pc)
    THEN (IF opcode = 32 THEN RunToMode(pc + 3, mode) ELSE mode)
    ELSE NoMode

StepOutMode_step(mode, m, pc, opcode) ==
    IF opcode = 96
    THEN LET sp == m.SP
             newSP == sp + 2
         IN  IF newSP > mode.targetSP
             THEN LET low == read(m.mem, 256 + sp + 1)
                      high == read(m.mem, 256 + sp + 2)
                  IN  RunToMode((high * 256 + low) + 1, NoMode)
             ELSE mode
    ELSE mode

RECURSIVE StepMode_step(_, _, _, _)

\* RunToMode.step that drops the restore mode
RunToMode_step_noRestore(mode, m, pc, opcode) ==
    IF pc = mode.targetPC THEN NoMode ELSE mode

RunToMode_step(mode, m, pc, opcode) ==
    IF pc = mode.targetPC
    THEN (IF mode.restoreMode # NoMode
          THEN StepMode_step(mode.restoreMode, m, pc, opcode)
          ELSE NoMode)
    ELSE mode

\* this._stepMode.step(this, pc, opcode), dispatched on the mode's class
StepMode_step(mode, m, pc, opcode) ==
    CASE mode.kind = "StepIn" -> StepInMode_step(mode, pc, opcode)
      [] mode.kind = "Next" -> NextMode_step(mode, pc, opcode)
      [] mode.kind = "StepOut" -> StepOutMode_step(mode, m, pc, opcode)
      [] mode.kind = "RunTo" -> RunToMode_step(mode, m, pc, opcode)
      [] OTHER -> NoMode

-----------------------------------------------------------------------------
(* Debug info as the session uses it: a list of spans in map order, each    *)
(* [start, size] with the type of the line attached to it (0: assembly,     *)
(* 1: C) or line = FALSE when no line record names the span                 *)

\* a search that also takes the address just past the span
Contains_endInclusive(span, pc) == pc >= span.start /\ pc <= span.start + span.size

Contains(span, pc) == pc >= span.start /\ pc <= span.start + span.size - 1

\* DebugInfo.getLineForAddress: the lines of the spans containing addr, the
\* smaller span first; the first line of type 1 wins, else the first line.
\* The result is the index of the span the line names, 0 for undefined.
getLineForAddress(di, addr) ==
    LET cand == {i \in 1 .. Len(di) : Contains(di[i], addr) /\ di[i].line}
        typed == {i \in cand : di[i].type = 1}
        pool == IF typed # {} THEN typed ELSE cand
    IN  IF cand = {} THEN 0
        ELSE CHOOSE i \in pool : \A j \in pool : di[i].size <= di[j].size

\* Bug65DebugSession.getCurrentSpan: the list of allowed ranges the step
\* requests build from it (span ? [span] : [])
getCurrentSpan(di, pc) ==
    LET li == getLineForAddress(di, pc)
        spatial == {i \in 1 .. Len(di) : Contains(di[i], pc)}
    IN  IF li # 0
        THEN <<[start |-> di[li].start, end |-> di[li].start + di[li].size - 1]>>
        ELSE IF spatial # {}
        THEN LET f == CHOOSE i \in spatial : \A j \in spatial : i <= j
             IN  <<[start |-> di[f].start, end |-> di[f].start + di[f].size - 1]>>
        ELSE <<>>

-----------------------------------------------------------------------------
(* Guest programs and their debug info: what launchRequest leaves in memory *)

\* the hook page left as loaded: only the reset vector
HookPage_unfilled == (65533 :> 2)

\* launchRequest fills $FFF0-$FFF9 with RTS; the loader sets the reset vector
\* $FFFC to the load address $0200
HookPage == [a \in 65520 .. 65529 |-> 96] @@ (65533 :> 2)

\* the software stack of the I/O programs: sp = $0300, two (buf, fd) blocks
\* with fd = 0 and buf = $0040, $0041
SoftStack == (1 :> 3) @@ (768 :> 64) @@ (772 :> 65)

\* $0200 JSR $0210; LDA #$01; RTS    $0210 JSR $0220; RTS    $0220 NOP; RTS
ProgCalls ==
    Bytes(512, <<32, 16, 2, 169, 1, 96>>) @@ Bytes(528, <<32, 32, 2, 96>>)
        @@ Bytes(544, <<234, 96>>) @@ HookPage

\* $0200 LDA #$02; JSR $FFF6; JSR $FFF6; JMP $FFF9
ProgIo ==
    Bytes(512, <<169, 2, 32, 246, 255, 32, 246, 255, 76, 249, 255>>)
        @@ SoftStack @@ HookPage

\* $0200 LDA #$00; JSR $FFF5; LDA #$01; JSR $FFF6; JMP $FFF9
ProgCloseIo ==
    Bytes(512, <<169, 0, 32, 245, 255, 169, 1, 32, 246, 255, 76, 249, 255>>)
        @@ SoftStack @@ HookPage

\* $0200 LDA #$01; JMP $FFF9
ProgExit == Bytes(512, <<169, 1, 76, 249, 255>>) @@ HookPage

\* $0200 NOP; BRA $0205; NOP; NOP; $0205 an undefined byte
ProgBad == Bytes(512, <<234, 128, 2, 234, 234, 2>>) @@ HookPage

\* $0200 BEQ $0208; ADC #$80; $0204 JSR $0200; $0207 NOP; $0208 RTS: the
\* routine calls itself until A wraps to zero (two nested calls)
ProgRec == Bytes(512, <<240, 6, 105, 128, 32, 0, 2, 234, 96>>) @@ HookPage

Span(start, size, type, line) ==
    [start |-> start, size |-> size, type |-> type, line |-> line]

\* one line per instruction group of ProgCalls
DiCallsLines ==
    <<Span(512, 3, 1, TRUE), Span(515, 3, 1, TRUE), Span(528, 4, 1, TRUE),
      Span(544, 2, 1, TRUE)>>

\* one C line over the whole of main, with an assembly line on the JSR
DiCallsMain ==
    <<Span(512, 3, 0, TRUE), Span(512, 6, 1, TRUE), Span(528, 4, 0, FALSE)>>

DiIo == <<Span(512, 5, 1, TRUE), Span(517, 3, 1, TRUE), Span(520, 3, 1, TRUE)>>

DiBad == <<Span(512, 6, 1, TRUE)>>

\* one line per instruction of ProgRec
DiRec ==
    <<Span(512, 2, 1, TRUE), Span(514, 2, 1, TRUE), Span(516, 3, 1, TRUE),
      Span(519, 1, 1, TRUE), Span(520, 1, 1, TRUE)>>

Launches ==
    {[image |-> ProgCalls, cpu |-> "6502", di |-> d] :
        d \in {<<>>, DiCallsLines, DiCallsMain}}
    \cup {[image |-> ProgIo, cpu |-> "6502", di |-> DiIo],
          [image |-> ProgCloseIo, cpu |-> "6502", di |-> <<>>],
          [image |-> ProgExit, cpu |-> "6502", di |-> <<>>],
          [image |-> ProgBad, cpu |-> "6502", di |-> DiBad],
          [image |-> ProgRec, cpu |-> "6502", di |-> DiRec],
          [image |-> ProgBad, cpu |-> "65C02", di |-> <<>>]}

\* the breakpoint groups: the source paths of setBreakPointsRequest, the
\* default group and the empty string
Groups == {"main.c", "default", ""}

\* the lines typed into the terminal, each delivered to onInput at once
InputLines == {<<10>>, <<65, 10>>}

\* last.n flips at every call of cpu.step and every step-mode stop; last.sp0
\* is the hardware SP at the nextRequest whose step is in progress
NoLast ==
    [how |-> "none", hook |-> "none", ret |-> 0, pc |-> 0, ignore |-> FALSE,
     mode |-> NoMode, n |-> 0, sp0 |-> 0]

\* the step is a Next, or the RunTo a Next installed over a JSR
OfNext(mode) ==
    \/ mode.kind = "Next"
    \/ mode.kind = "RunTo" /\ mode.restoreMode.kind = "Next"

Idle == [active |-> FALSE, i |-> 0, ignore |-> FALSE]

\* the session after the constructor and launchRequest (cpu.reset included)
InitLaunch(l, soe) ==
    /\ A = 0 /\ X = 0 /\ Y = 0 /\ SP = 255
    /\ Status = FlagUnused + FlagInterruptDisable
    /\ mem = l.image
    /\ PC = readWord(l.image, 65532)
    /\ cycles = 0
    /\ cpuType = l.cpu
    /\ breakpoints = << >>
    /\ waitingForInput = FALSE
    /\ inputBuffer = << >>
    /\ fds = StandardFds /\ nextFd = 3
    /\ commandLineArgs = <<ProgramPath>>
    /\ fsError = FALSE
    /\ stepMode = NoMode
    /\ stopOnEntry = soe
    /\ configDone = FALSE
    /\ debugInfo = l.di
    /\ loop = Idle
    /\ timers = 0
    /\ lastEvent = IF soe THEN "stopped:entry" ELSE "none"
    /\ terminated = FALSE
    /\ exitCode = NoExit
    /\ thrown = FALSE
    /\ last = NoLast

Init == \E l \in Launches : \E soe \in BOOLEAN : InitLaunch(l, soe)

-----------------------------------------------------------------------------
(* Bug65DebugSession *)

SetMachine(m) ==
    /\ A' = m.A /\ X' = m.X /\ Y' = m.Y /\ SP' = m.SP /\ PC' = m.PC
    /\ Status' = m.Status /\ cycles' = m.cycles /\ mem' = m.mem
    /\ waitingForInput' = m.waitingForInput /\ inputBuffer' = m.inputBuffer
    /\ nextFd' = m.nextFd /\ commandLineArgs' = m.commandLineArgs /\ fsError' = m.fsError
    /\ fds' = m.fds /\ terminated' = m.terminated /\ exitCode' = m.exitCode

sessionConst == <<cpuType, stopOnEntry, debugInfo>>

\* a handler may start a slice: none is executing, and the exploration bounds
CanStart == ~loop.active /\ cycles < MaxCycles /\ timers <= MaxChains

\* this.runLoop(ignoreInitialBreakpoint) called from a handler
StartRunLoop(ignoreInitialBreakpoint) ==
    loop' = [active |-> TRUE, i |-> 0, ignore |-> ignoreInitialBreakpoint]

\* one iteration of runLoop's for loop, with the code after the loop when the
\* iteration is the last: the step-mode check, cpu.step, the cycles === 0
\* branch, and setTimeout when the batch ran to its end
RunLoopIter ==
    /\ loop.active
    /\ LET pc == PC
           ign == loop.ignore /\ loop.i = 0
       IN  \E mode1 \in {IF stepMode # NoMode
                          THEN StepMode_step(stepMode, Machine, pc, read(mem, pc))
                          ELSE NoMode} :
           \E r \in {step(Machine, breakpoints, ign)} :
           IF stepMode # NoMode /\ mode1 = NoMode
           THEN /\ stepMode' = NoMode
                /\ lastEvent' = "stopped:step"
                /\ loop' = Idle
                /\ last' = [how |-> "stepstop", hook |-> "none", ret |-> 0, pc |-> pc,
                            ignore |-> ign, mode |-> stepMode, n |-> 1 - last.n,
                            sp0 |-> 0]
                /\ UNCHANGED <<cpuVars, mem, hostVars, terminated, exitCode, timers, thrown>>
           ELSE /\ SetMachine(r.m)
                /\ last' = [how |-> r.how, hook |-> r.hook, ret |-> r.ret, pc |-> pc,
                            ignore |-> ign, mode |-> mode1, n |-> 1 - last.n,
                            sp0 |-> IF OfNext(mode1) THEN last.sp0 ELSE 0]
                /\ IF r.thrown
                   THEN /\ stepMode' = mode1
                        /\ thrown' = TRUE
                        /\ loop' = Idle
                        /\ lastEvent' = r.m.lastEvent
                        /\ UNCHANGED timers
                   ELSE IF r.ret = 0
                   THEN /\ loop' = Idle
                        /\ UNCHANGED <<timers, thrown>>
                        /\ IF r.m.waitingForInput
                           THEN stepMode' = mode1 /\ lastEvent' = r.m.lastEvent
                           ELSE stepMode' = NoMode /\ lastEvent' = "stopped:breakpoint"
                   ELSE /\ stepMode' = mode1
                        /\ lastEvent' = r.m.lastEvent
                        /\ UNCHANGED thrown
                        /\ IF loop.i + 1 = batch
                           THEN loop' = Idle /\ timers' = timers + 1
                           ELSE loop' = [loop EXCEPT !.i = @ + 1] /\ UNCHANGED timers
    /\ UNCHANGED <<sessionConst, breakpoints, configDone>>

\* the setTimeout callback: runLoop(false)
TimerFires ==
    /\ timers > 0
    /\ ~loop.active
    /\ cycles < MaxCycles
    /\ timers' = timers - 1
    /\ StartRunLoop(FALSE)
    /\ UNCHANGED <<cpuVars, mem, hostVars, sessionConst, breakpoints, configDone,
                   stepMode, lastEvent, terminated, exitCode, thrown, last>>

configurationDoneRequest ==
    /\ ~configDone
    /\ ~loop.active
    /\ configDone' = TRUE
    /\ IF ~stopOnEntry THEN StartRunLoop(FALSE) ELSE UNCHANGED loop
    /\ UNCHANGED <<cpuVars, mem, hostVars, sessionConst, breakpoints, timers,
                   stepMode, lastEvent, terminated, exitCode, thrown, last>>

continueRequest ==
    /\ configDone
    /\ CanStart
    /\ stepMode' = NoMode
    /\ StartRunLoop(TRUE)
    /\ UNCHANGED <<cpuVars, mem, hostVars, sessionConst, breakpoints, configDone,
                   timers, lastEvent, terminated, exitCode, thrown, last>>

nextRequest ==
    /\ configDone
    /\ CanStart
    /\ stepMode' = NextMode(getCurrentSpan(debugInfo, PC))
    /\ StartRunLoop(TRUE)
    /\ last' = [last EXCEPT !.sp0 = SP]
    /\ UNCHANGED <<cpuVars, mem, hostVars, sessionConst, breakpoints, configDone,
                   timers, lastEvent, terminated, exitCode, thrown>>

stepInRequest ==
    /\ configDone
    /\ CanStart
    /\ stepMode' = StepInMode(getCurrentSpan(debugInfo, PC))
    /\ StartRunLoop(TRUE)
    /\ UNCHANGED <<cpuVars, mem, hostVars, sessionConst, breakpoints, configDone,
                   timers, lastEvent, terminated, exitCode, thrown, last>>

stepOutRequest ==
    /\ configDone
    /\ CanStart
    /\ stepMode' = StepOutMode(SP)
    /\ StartRunLoop(TRUE)
    /\ UNCHANGED <<cpuVars, mem, hostVars, sessionConst, breakpoints, configDone,
                   timers, lastEvent, terminated, exitCode, thrown, last>>

\* the onInput listener without the resume
terminalInput_noResume ==
    /\ CanStart
    /\ \E data \in InputLines :
        /\ Len(inputBuffer) + Len(data) <= MaxInput
        /\ inputBuffer' = writeInput(Machine, data).inputBuffer
    /\ UNCHANGED <<cpuVars, mem, waitingForInput, fds, nextFd, commandLineArgs, fsError,
                   sessionConst, breakpoints, loop, configDone, timers, stepMode,
                   lastEvent, terminated, exitCode, thrown, last>>

\* the terminal's onInput listener: writeInput, then runLoop() when the host
\* is waiting for input
terminalInput ==
    /\ CanStart
    /\ \E data \in InputLines :
        /\ Len(inputBuffer) + Len(data) <= MaxInput
        /\ inputBuffer' = writeInput(Machine, data).inputBuffer
    /\ IF waitingForInput THEN StartRunLoop(FALSE) ELSE UNCHANGED loop
    /\ UNCHANGED <<cpuVars, mem, waitingForInput, fds, nextFd, commandLineArgs, fsError,
                   sessionConst, breakpoints, configDone, timers, stepMode, lastEvent,
                   terminated, exitCode, thrown, last>>

\* setBreakPointsRequest for one source path: clearBreakpoints(path), then a
\* breakpoint at the start of the span of every requested line that has one
RECURSIVE addLines(_, _, _, _)
addLines(bps, di, clientLines, path) ==
    IF clientLines = {} THEN bps
    ELSE LET l == CHOOSE x \in clientLines : \A y \in clientLines : x <= y
             rest == clientLines \ {l}
         IN  IF di[l].line
             THEN addLines(addBreakpoint(bps, di[l].start, path), di, rest, path)
             ELSE addLines(bps, di, rest, path)

setBreakPointsRequest ==
    /\ ~loop.active
    /\ \E path \in {"main.c"} :
       \E clientLines \in {ls \in SUBSET (1 .. Len(debugInfo)) : Cardinality(ls) <= 1} :
           breakpoints' = addLines(clearBreakpoints(breakpoints, path), debugInfo,
                                   clientLines, path)
    /\ UNCHANGED <<cpuVars, mem, hostVars, sessionConst, configDone, loop, timers,
                   stepMode, lastEvent, terminated, exitCode, thrown, last>>

Next ==
    \/ RunLoopIter
    \/ TimerFires
    \/ configurationDoneRequest
    \/ continueRequest
    \/ nextRequest
    \/ stepInRequest
    \/ stepOutRequest
    \/ terminalInput
    \/ setBreakPointsRequest

Spec == Init /\ [][Next]_vars

\* runLoop is a synchronous for loop: once entered, each iteration follows the
\* one before it until the loop returns
FairSpec == Spec /\ WF_vars(RunLoopIter)

-----------------------------------------------------------------------------
(* The CPU and host driven directly through their public methods *)

\* addresses the breakpoint methods are called with: the load address and
\* the read hook
BpAddrs == {512, ADDR_READ}

sessionVars ==
    <<stepMode, stopOnEntry, configDone, debugInfo, loop, timers, thrown>>

cpuAddBreakpoint ==
    /\ \E addr \in BpAddrs : \E group \in Groups :
           breakpoints' = addBreakpoint(breakpoints, addr, group)
    /\ UNCHANGED <<cpuVars, cpuType, mem, hostVars, sessionVars, lastEvent, terminated, exitCode,
                   last>>

cpuRemoveBreakpoint ==
    /\ \E addr \in BpAddrs : \E group \in Groups :
           breakpoints' = removeBreakpoint(breakpoints, addr, group)
    /\ UNCHANGED <<cpuVars, cpuType, mem, hostVars, sessionVars, lastEvent, terminated, exitCode,
                   last>>

cpuClearBreakpoints ==
    /\ \E group \in Groups \cup {NoGroup} :
           breakpoints' = clearBreakpoints(breakpoints, group)
    /\ UNCHANGED <<cpuVars, cpuType, mem, hostVars, sessionVars, lastEvent, terminated, exitCode,
                   last>>

\* cpu.step(ignoreBreakpoint) called once; an Error thrown goes to the caller
cpuStep ==
    /\ cycles < MaxCycles
    /\ \E ign \in BOOLEAN :
        \E r \in {step(Machine, breakpoints, ign)} :
        /\ SetMachine(r.m)
        /\ lastEvent' = r.m.lastEvent
        /\ last' = [how |-> r.how, hook |-> r.hook, ret |-> r.ret, pc |-> PC,
                    ignore |-> ign, mode |-> NoMode, n |-> 1 - last.n]
    /\ UNCHANGED <<cpuType, breakpoints, sessionVars>>

NextCpu == cpuAddBreakpoint \/ cpuRemoveBreakpoint \/ cpuClearBreakpoints \/ cpuStep

SpecCpu == Init /\ [][NextCpu]_vars

-----------------------------------------------------------------------------
(* Properties *)

\* this transition called cpu.step, or stopped on the step mode before it
Stepped == last'.n # last.n

\* this transition called cpu.step and the step got past the breakpoint check,
\* so the trap hook was invoked
HookEntered == Stepped /\ last'.how \in {"trap", "executed", "error"}

guestUnchanged == UNCHANGED <<A, X, Y, SP, PC, Status, cycles, mem>>

\* C1: when the read hook is entered with fd 0, count > 0 and no buffered
\* console input, the handler sets waiting-for-input, leaves the software
\* stack pointer and guest memory alone, and halts the step: 0 cycles, PC
\* still $FFF6.
C1_ReadBlocks ==
    [][(HookEntered /\ PC = ADDR_READ /\ peekParam(Machine, 2, 2) = 0
            /\ getAX(Machine) > 0 /\ inputBuffer = <<>>)
        => (waitingForInput' /\ mem' = mem /\ last'.how = "trap" /\ last'.ret = 0
                /\ PC' = ADDR_READ)]_vars

\* C2: once the session is suspended on a console read and a non-empty line
\* has been delivered (the listener has called runLoop), the read hook is
\* re-entered and the read completes: waiting-for-input is cleared, AX holds
\* the number of bytes delivered and the guest buffer holds those bytes. Every
\* completed console read delivers the first min(count, buffered) bytes.
InputDelivered == waitingForInput /\ inputBuffer # <<>>

ReadCompleted ==
    /\ ~waitingForInput
    /\ last.hook = "read_done"
    /\ getAX(Machine) \in 1 .. MaxInput
    /\ LET bufAddr == readWord(mem, softSP(Machine) - 4)
       IN  \A i \in 0 .. getAX(Machine) - 1 : read(mem, bufAddr + i) \in {10, 65}

C2_InputResumesRead ==
    /\ InputDelivered ~> ReadCompleted
    /\ [][(Stepped /\ last'.hook = "read_done")
            => LET count == getAX(Machine)
                   n == IF count < Len(inputBuffer) THEN count ELSE Len(inputBuffer)
                   bufAddr == peekParam(Machine, 2, 0)
               IN  /\ getAX(Machine)' = n
                   /\ \A i \in 1 .. n : read(mem', bufAddr + i - 1) = inputBuffer[i]
                   /\ inputBuffer' = SubSeq(inputBuffer, n + 1, Len(inputBuffer))
                   /\ ~waitingForInput']_vars

C2_Witness == ReadCompleted /\ getAX(Machine) = 2 /\ read(mem, 64) = 65 /\ read(mem, 65) = 10

\* C3: step with ignoreBreakpoint = false at a PC that is a breakpoint address
\* returns 0 without executing: the trap hook is not invoked, and the
\* registers, PC, memory, cycle counter and host state are unchanged.
C3_BreakpointHalts ==
    [][(Stepped /\ ~last'.ignore /\ PC \in DOMAIN breakpoints)
        => (last'.ret = 0 /\ last'.how = "breakpoint" /\ last'.hook = "none"
                /\ guestUnchanged /\ UNCHANGED <<hostVars, lastEvent, terminated, exitCode>>)]_vars

\* a step with ignoreBreakpoint = false halted on a breakpoint at the read
\* hook, with a console read pending there
C3_Witness ==
    /\ last.how = "breakpoint" /\ ~last.ignore /\ last.pc = ADDR_READ /\ PC = ADDR_READ
    /\ ADDR_READ \in DOMAIN breakpoints
    /\ getAX(Machine) > 0 /\ inputBuffer = <<>> /\ ~waitingForInput

\* C4: whatever addBreakpoint, removeBreakpoint and clearBreakpoints calls
\* were made, no address is left in the map with an empty group set, and
\* step with ignoreBreakpoint = false halts at an address exactly when some
\* group is registered for it.
C4_ArmedIffTagged ==
    /\ \A a \in DOMAIN breakpoints : breakpoints[a] # {}
    /\ \A a \in BpAddrs :
        (step([Machine EXCEPT !.PC = a], breakpoints, FALSE).how = "breakpoint")
            <=> (a \in DOMAIN breakpoints /\ breakpoints[a] # {})

\* one address lost its last group while the other keeps one
C4_Witness ==
    /\ DOMAIN breakpoints = {ADDR_READ}
    /\ breakpoints[ADDR_READ] = {"default"}
    /\ last.how = "breakpoint" /\ last.pc = ADDR_READ

\* C5: a decode error raised while a slice is executing does not leave
\* runLoop: the session stops with a stopped event, the step mode is cleared
\* and the slice chain ends.
C5_DecodeErrorCaught ==
    [][(Stepped /\ last'.how = "error")
        => (~thrown' /\ lastEvent' \in {"stopped:exception", "stopped:breakpoint",
                                        "stopped:step"}
                /\ stepMode' = NoMode /\ ~loop'.active /\ timers' = timers)]_vars

\* C6: a step that fetches a byte with no table entry, or a 65C02-only
\* opcode while the CPU type is 6502, raises the error; nothing of the
\* instruction is executed (only the fetch has advanced PC).
Undecodable(opcode) ==
    \/ OPCODES[opcode] = NoEntry
    \/ OPCODES[opcode].cpu = "65C02" /\ cpuType # "65C02"

C6_DecodeError ==
    [][(HookEntered /\ last'.how # "trap")
        => IF Undecodable(read(mem, PC))
           THEN /\ last'.how = "error"
                /\ PC' = PC + 1
                /\ UNCHANGED <<A, X, Y, SP, Status, cycles, mem>>
           ELSE last'.how = "executed"]_vars

\* the 6502 refused BRA at $0201
C6_Witness == last.how = "error" /\ last.pc = 513 /\ cpuType = "6502" /\ PC = 514


stoppedOnStepMode ==
    /\ last'.how = "stepstop"
    /\ guestUnchanged
    /\ stepMode' = NoMode
    /\ lastEvent' = "stopped:step"
    /\ ~loop'.active

\* C7: Next at a JSR at P inside its span does not stop and becomes
\* RunTo(P + 3, the Next mode); every RunTo with a mode to restore is of that
\* origin; and the stop that ends it happens with PC = P + 3 and the mode
\* cleared, unless the restored Next mode keeps running from P + 3.
C7_NextOverJsr ==
    /\ [](stepMode.kind = "RunTo" /\ stepMode.restoreMode # NoMode
            => /\ stepMode.restoreMode.kind = "Next"
               /\ read(mem, stepMode.targetPC - 3) = 32
               /\ InRanges(stepMode.restoreMode.allowedRanges, stepMode.targetPC - 3))
    /\ [][(Stepped /\ stepMode.kind = "Next"
                /\ InRanges(stepMode.allowedRanges, PC) /\ read(mem, PC) = 32)
            => (last'.how # "stepstop" /\ last'.mode = RunToMode(PC + 3, stepMode))]_vars
    /\ [][(Stepped /\ stepMode.kind = "RunTo" /\ stepMode.restoreMode # NoMode)
            => IF last'.how = "stepstop"
               THEN PC = stepMode.targetPC /\ PC' = PC /\ stepMode' = NoMode
                        /\ ~InRanges(stepMode.restoreMode.allowedRanges, PC)
               ELSE IF PC = stepMode.targetPC
               THEN last'.mode \in {stepMode.restoreMode,
                                    RunToMode(PC + 3, stepMode.restoreMode)}
               ELSE last'.mode = stepMode]_vars

\* a Next over the JSR at P has stopped at P + 3
C7_Witness ==
    /\ last.how = "stepstop" /\ lastEvent = "stopped:step" /\ stepMode = NoMode
    /\ last.mode.kind = "RunTo" /\ last.mode.restoreMode.kind = "Next"
    /\ PC = last.mode.targetPC /\ read(mem, PC - 3) = 32

\* C8: in RunTo(target, restore) the step mode stops nothing while
\* PC # target; at the first check with PC = target the restore mode's rule
\* is applied once, before the instruction at target executes, and with no
\* restore mode the session stops there.
C8_RunTo ==
    [][(Stepped /\ stepMode.kind = "RunTo")
        => IF PC # stepMode.targetPC
           THEN last'.how # "stepstop" /\ last'.mode = stepMode
           ELSE IF stepMode.restoreMode = NoMode
           THEN stoppedOnStepMode
           ELSE IF StepMode_step(stepMode.restoreMode, Machine, PC, read(mem, PC)) = NoMode
           THEN stoppedOnStepMode
           ELSE /\ last'.how # "stepstop"
                /\ last'.mode = StepMode_step(stepMode.restoreMode, Machine, PC,
                                              read(mem, PC))]_vars

\* a RunTo without a restore mode has stopped at its target
C8_Witness ==
    /\ last.how = "stepstop" /\ lastEvent = "stopped:step" /\ stepMode = NoMode
    /\ last.mode.kind = "RunTo" /\ last.mode.restoreMode = NoMode
    /\ PC = last.mode.targetPC

\* C9: under StepIn the ranges are checked before every instruction: inside
\* a range the mode stays and cpu.step is called, outside every range the
\* session stops and nothing executes.
C9_StepIn ==
    [][(Stepped /\ stepMode.kind = "StepIn")
        => IF InRanges(stepMode.allowedRanges, PC)
           THEN last'.how # "stepstop" /\ last'.mode = stepMode
           ELSE stoppedOnStepMode]_vars

\* a step-in from the JSR at $0200 has stopped on entry to the callee
C9_Witness ==
    /\ last.how = "stepstop" /\ lastEvent = "stopped:step" /\ stepMode = NoMode
    /\ last.mode.kind = "StepIn" /\ last.mode.allowedRanges # <<>>
    /\ PC = 528 /\ SP = 253

\* C10: under StepOut(entrySP) nothing stops and the mode stays, except at an
\* RTS whose pull leaves SP above entrySP: there the mode becomes
\* RunTo(the address the RTS returns to, None).
C10_StepOut ==
    [][(Stepped /\ stepMode.kind = "StepOut")
        => /\ last'.how # "stepstop"
           /\ IF read(mem, PC) = 96 /\ RTS(Machine).SP > stepMode.targetSP
              THEN last'.mode = RunToMode(RTS(Machine).PC, NoMode)
              ELSE last'.mode = stepMode]_vars

-----------------------------------------------------------------------------
(* stackTraceRequest and scanStack (bug65Debug.ts) *)

\* most frames asked for: args.levels (20 when absent), startFrame 0
Levels == {1, 2, 20}

\* the while loop of scanStack from stackPtr on: frames is the list of frame
\* addresses so far, used the stack addresses recorded as used
RECURSIVE scanFrom(_, _, _, _, _)
scanFrom(mm, stackPtr, frames, used, maxFrames) ==
    IF stackPtr < 254 /\ Len(frames) < maxFrames
    THEN LET low == read(mm, 256 + stackPtr)
             high == read(mm, 256 + stackPtr + 1)
             jsrAddr == (high * 256 + low) - 2
         IN  IF jsrAddr >= 0 /\ jsrAddr <= 65535 /\ read(mm, jsrAddr) = 32
             THEN scanFrom(mm, stackPtr + 1, Append(frames, jsrAddr),
                           used \cup {256 + stackPtr, 256 + stackPtr + 1}, maxFrames)
             ELSE scanFrom(mm, stackPtr + 1, frames, used, maxFrames)
    ELSE [frames |-> frames, usedAddresses |-> used]

\* scanStack(maxFrames): the current frame first, then the scan from SP + 1
scanStack(m, maxFrames) == scanFrom(m.mem, m.SP + 1, <<m.PC>>, {}, maxFrames)

\* a guest stopped at $0210 inside nested calls: JSR at $0203 and $3D54
ScanImage ==
    Bytes(512, <<234, 234, 234, 32, 16, 2>>) @@ Bytes(528, <<234, 96>>)
        @@ Bytes(15700, <<32, 0, 2>>) @@ HookPage

\* the same guest with one more JSR, at $5600
ScanImages == {ScanImage, Bytes(22016, <<32, 0, 2>>) @@ ScanImage}

\* the bytes found in the top four cells of the hardware stack
ScanBytes == {2, 5, 61, 86}

ScanSPs == {251, 252, 253, 255}

\* the session stopped at $0210 with some stack below the top of page 1
InitScan ==
    \E sp \in ScanSPs : \E b \in [508 .. 511 -> ScanBytes] : \E image \in ScanImages :
        /\ A = 0 /\ X = 0 /\ Y = 0 /\ SP = sp
        /\ Status = FlagUnused + FlagInterruptDisable
        /\ mem = b @@ image
        /\ PC = 528
        /\ cycles = 0
        /\ cpuType = "6502"
        /\ breakpoints = << >>
        /\ waitingForInput = FALSE
        /\ inputBuffer = << >>
        /\ fds = StandardFds /\ nextFd = 3
        /\ commandLineArgs = <<ProgramPath>>
        /\ fsError = FALSE
        /\ stepMode = NoMode
        /\ stopOnEntry = TRUE
        /\ configDone = TRUE
        /\ debugInfo = << >>
        /\ loop = Idle
        /\ timers = 0
        /\ lastEvent = "stopped:entry"
        /\ terminated = FALSE
        /\ exitCode = NoExit
        /\ thrown = FALSE
        /\ last = NoLast

\* stackTraceRequest: the frames of scanStack(levels + startFrame)
stackTraceRequest ==
    /\ ~loop.active
    /\ \E levels \in Levels :
        \E r \in {scanStack(Machine, levels)} :
            last' = [how |-> "stackTrace", frames |-> r.frames,
                     usedAddresses |-> r.usedAddresses, maxFrames |-> levels]
    /\ UNCHANGED <<cpuVars, cpuType, breakpoints, mem, hostVars, sessionVars, lastEvent,
                   terminated, exitCode>>

SpecScan == InitScan /\ [][stackTraceRequest]_vars

\* C11: with SP = $FB, $01FC..$01FF = $05 $02 $56 $3D and a JSR opcode at
\* $0203 and at $3D54 (and at no other address the scan looks at), a stack
\* scan that may return three frames or more returns exactly the current PC,
\* $0203 and $3D54, in this order.
C11_ThreeFrames ==
    (/\ last.how = "stackTrace" /\ last.maxFrames >= 3
     /\ SP = 251
     /\ read(mem, 508) = 5 /\ read(mem, 509) = 2
     /\ read(mem, 510) = 86 /\ read(mem, 511) = 61
     /\ read(mem, 515) = 32 /\ read(mem, 15700) = 32 /\ read(mem, 22016) # 32)
        => last.frames = <<PC, 515, 15700>>

\* C12: a step taken with PC at the exit hook $FFF9 (and no armed breakpoint
\* in the way) is aborted: it returns 0 cycles, changes no register, no
\* memory and no cycle counter, and the exit event carries the value A has at
\* that moment.
C12_ExitHook ==
    [][(/\ Stepped /\ last'.how # "stepstop" /\ PC = ADDR_EXIT
        /\ (last'.ignore \/ PC \notin DOMAIN breakpoints))
        => (/\ last'.ret = 0 /\ last'.hook = "exit" /\ guestUnchanged
            /\ exitCode' = A /\ terminated')]_vars

\* LDA #$01; JMP $FFF9 has exited with code 1
C12_Witness ==
    /\ last.hook = "exit" /\ last.ret = 0 /\ PC = ADDR_EXIT /\ cycles = 5
    /\ terminated /\ exitCode = 1

-----------------------------------------------------------------------------
(* Bug65Host under a guest that calls the hooks *)

\* descriptors handed out by open stay below MaxFd
MaxFd == 4

\* the software stack of the calling guest starts below SoftBase
SoftBase == 768

\* descriptors a guest passes: console, first opened file, never opened
GuestFds == {0, 3, 9}

\* a call of the guest: the hook, AX, and the three words on top of the
\* software stack, the shallowest first
Call(hook, ax, block) == [hook |-> hook, ax |-> ax, block |-> block]

\* read and write (buf $0040, fd; count in AX), lseek (offset 0, fd; whence in
\* AX), close (fd in AX), remove (name $0050 in AX), open with (flags, name) on
\* the stack and the mode in AX, open with (mode, flags, name) on the stack,
\* maperrno (errno 1 in AX), a call of $FFF0, which has no handler, and exit
\* (code 0 in A)
GuestCalls ==
    {Call(ADDR_READ, count, <<64, fd, 0>>) : count \in {0, 3}, fd \in GuestFds}
        \cup {Call(ADDR_WRITE, 3, <<64, fd, 0>>) : fd \in GuestFds}
        \cup {Call(ADDR_LSEEK, 0, <<0, 0, fd>>) : fd \in GuestFds}
        \cup {Call(ADDR_CLOSE, fd, <<0, 0, 0>>) : fd \in GuestFds}
        \cup {Call(ADDR_REMOVE, 80, <<0, 0, 0>>),
              Call(ADDR_OPEN, 0, <<1, 80, 0>>), Call(ADDR_OPEN, 0, <<0, 1, 80>>),
              Call(ADDR_MAPERRNO, 1, <<0, 0, 0>>), Call(65520, 513, <<0, 0, 0>>),
              Call(ADDR_EXIT, 0, <<0, 0, 0>>)}

\* Bug65Host.commandLineArgs after construction: "bug65"
DefaultArgs == <<<<98, 117, 103, 54, 53>>>>

\* cpu, memory and host constructed, the reset vector at $0200, the command
\* line set to args
InitHostWith(args) ==
    /\ A = 0 /\ X = 0 /\ Y = 0 /\ SP = 255
    /\ Status = FlagUnused + FlagInterruptDisable
    /\ mem = HookPage
    /\ PC = readWord(HookPage, 65532)
    /\ cycles = 0
    /\ cpuType = "6502"
    /\ breakpoints = << >>
    /\ waitingForInput = FALSE
    /\ inputBuffer = << >>
    /\ fds = StandardFds /\ nextFd = 3
    /\ commandLineArgs = args
    /\ fsError = FALSE
    /\ stepMode = NoMode
    /\ stopOnEntry = FALSE
    /\ configDone = FALSE
    /\ debugInfo = << >>
    /\ loop = Idle
    /\ timers = 0
    /\ lastEvent = "none"
    /\ terminated = FALSE
    /\ exitCode = NoExit
    /\ thrown = FALSE
    /\ last = NoLast

InitHost == InitHostWith(DefaultArgs)

\* a hook call is set up and has not returned to $0203
InCall == read(mem, 512) = 32 /\ PC # 515

\* the memory image of a guest about to make call c with the software stack
\* pointer at sp: JSR hook at $0200, the block at sp
CallImage(c, sp) ==
    writeBytes(
      writeBytes(
        writeBytes(HookPage, 512, <<32, c.hook % 256, c.hook \div 256>>),
        sp,
        <<c.block[1] % 256, c.block[1] \div 256, c.block[2] % 256,
          c.block[2] \div 256, c.block[3] % 256, c.block[3] \div 256>>),
      spAddress, <<sp % 256, sp \div 256>>)

\* the guest is put before call c: memory.load of its image, cpu.reset, and
\* cpu.setRegisters of A and X
SetUpCall(c, sp) ==
    /\ mem' = CallImage(c, sp)
    /\ A' = c.ax % 256 /\ X' = c.ax \div 256 /\ Y' = 0 /\ SP' = 255
    /\ Status' = FlagUnused + FlagInterruptDisable
    /\ PC' = readWord(CallImage(c, sp), 65532)
    /\ cycles' = 0
    /\ last' = [NoLast EXCEPT !.n = last.n]
    /\ UNCHANGED <<cpuType, breakpoints, hostVars, sessionVars, lastEvent, terminated,
                   exitCode>>

guestCall ==
    /\ ~terminated
    /\ ~InCall \/ waitingForInput
    /\ \E c \in GuestCalls :
        /\ c.hook = ADDR_OPEN => nextFd < MaxFd
        /\ SetUpCall(c, SoftBase - 6)

\* cpu.step() while the call is in progress
hostStep ==
    /\ InCall
    /\ \E r \in {step(Machine, breakpoints, FALSE)} :
        /\ SetMachine(r.m)
        /\ lastEvent' = r.m.lastEvent
        /\ last' = [how |-> r.how, hook |-> r.hook, ret |-> r.ret, pc |-> PC,
                    ignore |-> FALSE, mode |-> NoMode, n |-> 1 - last.n]
    /\ UNCHANGED <<cpuType, breakpoints, sessionVars>>

\* host.writeInput(data)
hostWriteInput ==
    /\ \E data \in InputLines :
        /\ Len(inputBuffer) + Len(data) <= MaxInput
        /\ inputBuffer' = writeInput(Machine, data).inputBuffer
    /\ UNCHANGED <<cpuVars, cpuType, breakpoints, mem, waitingForInput, fds, nextFd,
                   commandLineArgs, fsError, sessionVars, lastEvent, terminated, exitCode,
                   last>>

\* the host file system starts or stops refusing calls
hostFsChange ==
    /\ fsError' = ~fsError
    /\ UNCHANGED <<cpuVars, cpuType, breakpoints, mem, waitingForInput, inputBuffer, fds,
                   nextFd, commandLineArgs, sessionVars, lastEvent, terminated, exitCode,
                   last>>

NextHost == guestCall \/ hostStep \/ hostWriteInput \/ hostFsChange

SpecHost == InitHost /\ [][NextHost]_vars

\* this transition moved the software-stack pointer up by n bytes
Popped(n) == softSP([mem |-> mem']) = (softSP(Machine) + n) % 65536

\* C13: a hook call that completes (a read that blocks has not completed)
\* raises the software-stack pointer by the size of the parameters that are
\* not the last one: 4 bytes for read, 4 for write, 6 for lseek, 4 for open.
C13_PopSizes ==
    [][(HookEntered /\ last'.hook # "read_blocked")
        => (/\ PC = ADDR_READ => Popped(4)
            /\ PC = ADDR_WRITE => Popped(4)
            /\ PC = ADDR_LSEEK => Popped(6)
            /\ PC = ADDR_OPEN => Popped(4))]_vars

\* the hook call about to be served fails: a descriptor that is not in the
\* table, or a host file system call that throws
FailingCall ==
    \/ PC \in {ADDR_READ, ADDR_WRITE} /\ peekParam(Machine, 2, 2) \notin DOMAIN fds
    \/ PC = ADDR_LSEEK /\ peekParam(Machine, 2, 4) \notin DOMAIN fds
    \/ PC = ADDR_CLOSE /\ getAX(Machine) \notin DOMAIN fds
    \/ PC \in {ADDR_OPEN, ADDR_REMOVE} /\ fsError
    \/ /\ PC \in {ADDR_READ, ADDR_WRITE} /\ fsError
       /\ peekParam(Machine, 2, 2) \in DOMAIN fds
       /\ fds[peekParam(Machine, 2, 2)].kind = "file"
    \/ /\ PC = ADDR_CLOSE /\ fsError /\ getAX(Machine) \in DOMAIN fds
       /\ fds[getAX(Machine)].kind = "file"

\* C14: a failing host call leaves $FFFF in AX and the trap returns continue:
\* the step goes on to execute the instruction at the hook address, it does
\* not halt and no exception leaves it.
C14_FailureContinues ==
    [][(HookEntered /\ FailingCall)
        => (/\ A' = 255 /\ X' = 255
            /\ last'.how = "executed" /\ last'.ret > 0)]_vars

\* a read from an open file threw inside the handler and the guest is back
\* at its call site with $FFFF
C14_Witness ==
    /\ last.hook = "read_failed" /\ last.how = "executed"
    /\ A = 255 /\ X = 255 /\ PC = 515

\* C27: a guest JSR to a hook address in $FFF0-$FFF8 whose handler returns
\* continue (also an address with no handler) falls through to the RTS byte
\* filled in at the hook address and resumes at the instruction following the
\* JSR with the hardware SP as before the JSR; a hook address with no handler
\* changes no register, memory or host state.
C27_HookFallsThrough ==
    [][(HookEntered /\ PC \in 65520 .. 65528 /\ last'.hook # "read_blocked")
        => (/\ last'.how = "executed"
            /\ PC' = 515 /\ SP' = 255
            /\ PC = 65520 => UNCHANGED <<A, X, Y, Status, mem, hostVars>>)]_vars

\* the guest is back from a call of $FFF0 with its registers as it set them
C27_Witness ==
    /\ last.how = "executed" /\ last.pc = 65520 /\ PC = 515 /\ SP = 255
    /\ A = 1 /\ X = 2

\* C29: when the session has ended (the guest called exit), every descriptor
\* still in the fd table is a console descriptor: no host file the guest
\* opened through the open hook remains open.
C29_TeardownClosesFiles ==
    terminated => \A fd \in DOMAIN fds : fds[fd].kind = "console"

\* C30: across the suspensions and re-entries of one console read call the
\* read parameters are popped exactly once: the software-stack pointer is
\* unchanged at every suspension, and when the call completes it is exactly 4
\* higher than at first entry (SoftBase - 6).
C30_ReadPopsOnce ==
    [][(HookEntered /\ PC = ADDR_READ /\ peekParam(Machine, 2, 2) = 0)
        => IF last'.hook = "read_blocked"
           THEN /\ Popped(0) /\ softSP([mem |-> mem']) = SoftBase - 6
                /\ PC' = ADDR_READ /\ waitingForInput'
           ELSE /\ Popped(4) /\ softSP([mem |-> mem']) = SoftBase - 2]_vars

\* a console read is suspended, its parameters still on the software stack,
\* and input has arrived for the re-entry
C30_Witness ==
    /\ last.hook = "read_blocked" /\ waitingForInput /\ PC = ADDR_READ
    /\ softSP(Machine) = SoftBase - 6 /\ inputBuffer # << >>

\* C15: whatever hook calls the guest has made, descriptors 0, 1 and 2 are in
\* the fd table and refer to the console strategy.
C15_StandardFdsStay ==
    \A fd \in {0, 1, 2} : fd \in DOMAIN fds /\ fds[fd] = ConsoleStrategy

-----------------------------------------------------------------------------
(* pvArgs under a guest that calls the args hook *)

\* command lines: none, the default, a program with two arguments, an empty
\* argument, a character outside Latin-1 (U+0141)
ArgLists ==
    {<<>>, DefaultArgs, <<ProgramPath, <<97, 98>>, <<99>>>>, <<ProgramPath, <<>>>>,
     <<ProgramPath, <<321>>>>}

\* where the guest keeps __argv, and where its software stack pointer stands
ArgvPtrs == {8192, 8448, 16384}
ArgSPs == {SoftBase, 1024, 49152}

InitArgs == \E args \in ArgLists : InitHostWith(args)

\* the guest reaches JSR $FFF8 with the address of __argv in AX
argsCall ==
    /\ ~InCall
    /\ \E ax \in ArgvPtrs : \E sp \in ArgSPs :
        SetUpCall(Call(ADDR_ARGS, ax, <<0, 0, 0>>), sp)

SpecArgs == InitArgs /\ [][argsCall \/ hostStep]_vars

\* C16: when the args hook completes for a command line of n strings, AX is
\* n, the word at the address AX held on entry is the software-stack pointer,
\* the n words from the software-stack pointer up point, in order, to
\* NUL-terminated copies of the arguments, and the next word is $0000.
C16_ArgsMarshalled ==
    [][(HookEntered /\ PC = ADDR_ARGS)
        => LET n == Len(commandLineArgs)
               sp == softSP([mem |-> mem'])
           IN  /\ A' + 256 * X' = n
               /\ readWord(mem', getAX(Machine)) = sp
               /\ \A i \in 1 .. n :
                    LET ptr == readWord(mem', sp + 2 * (i - 1))
                        arg == commandLineArgs[i]
                    IN  /\ \A j \in 1 .. Len(arg) : read(mem', ptr + j - 1) = arg[j]
                        /\ read(mem', ptr + Len(arg)) = 0
               /\ readWord(mem', sp + 2 * n) = 0]_vars

-----------------------------------------------------------------------------
(* Cpu6502 driven through reset, step and setRegisters *)

\* $0200 JSR $0210; PLP; RTI / $0210 RTS / $0220 JMP ($10FF) / $2000 NOP /
\* JSR $0210 at $FFFD, so the reset vector is $2000 and the BRK vector $0210;
\* $01FE and $01FF hold status bytes with B set and U clear
UnitImage ==
    Bytes(512, <<32, 16, 2, 40, 64>>) @@ (528 :> 96) @@ Bytes(544, <<108, 255, 16>>)
        @@ (4096 :> 32) @@ (4351 :> 128) @@ (4352 :> 48)
        @@ (8192 :> 234) @@ (8320 :> 234) @@ (12416 :> 234)
        @@ Bytes(65533, <<32, 16, 2>>) @@ Bytes(510, <<16, 223>>)

\* the partial register sets passed to setRegisters
RegSets ==
    {[PC |-> pc] : pc \in {512, 544, 65533}}
        \cup {[SP |-> sp] : sp \in {0, 253}}
        \cup {[Status |-> p] : p \in {0, 255}}

InitUnit ==
    \E cpu \in {"6502", "65C02"} :
        InitLaunch([image |-> UnitImage, cpu |-> cpu, di |-> <<>>], FALSE)

\* the cpu stops being stepped once UnitCycles cycles are counted
UnitCycles == 13

\* memory.load of the image again, then cpu.reset()
unitRestart ==
    /\ mem' = UnitImage
    /\ A' = 0 /\ X' = 0 /\ Y' = 0 /\ SP' = 255
    /\ Status' = FlagUnused + FlagInterruptDisable
    /\ PC' = readWord(UnitImage, 65532)
    /\ cycles' = 0
    /\ UNCHANGED <<cpuType, breakpoints, hostVars, sessionVars, lastEvent, terminated,
                   exitCode, last>>

\* cpu.setRegisters(regs)
cpuSetRegisters ==
    /\ \E regs \in RegSets : SetMachine(setRegisters(Machine, regs))
    /\ UNCHANGED <<cpuType, breakpoints, sessionVars, lastEvent, last>>

\* cpu.step()
unitStep ==
    /\ cycles < UnitCycles
    /\ \E r \in {step(Machine, breakpoints, FALSE)} :
        /\ SetMachine(r.m)
        /\ lastEvent' = r.m.lastEvent
        /\ last' = [how |-> r.how, hook |-> r.hook, ret |-> r.ret, pc |-> PC,
                    ignore |-> FALSE, mode |-> NoMode, n |-> 1 - last.n]
    /\ UNCHANGED <<cpuType, breakpoints, sessionVars>>

SpecUnit == InitUnit /\ [][unitRestart \/ unitStep \/ cpuSetRegisters]_vars

\* C17: after any sequence of reset, step and setRegisters (given register
\* values in range), A, X, Y, SP and P are in 0..255 and PC is in 0..65535.
C17_RegisterRanges ==
    /\ A \in 0 .. 255 /\ X \in 0 .. 255 /\ Y \in 0 .. 255
    /\ SP \in 0 .. 255 /\ Status \in 0 .. 255
    /\ PC \in 0 .. 65535

\* C18: the U bit of P is 1 in every state reached by reset, step and
\* setRegisters.
C18_UnusedSet == getFlag(Status, FlagUnused)

\* C19: from any state with PC and SP in range and a JSR addr at PC, addr not
\* a hook address, stepping the JSR and then the RTS found at addr ends with PC
\* at the starting PC plus 3 (a 16-bit value) and SP at its starting value.
C19_JsrRtsRoundTrip ==
    LET addr == read(mem, PC + 2) * 256 + read(mem, PC + 1)
        jsr == step(Machine, << >>, TRUE)
    IN  (/\ PC \in 0 .. 65535 /\ SP \in 0 .. 255
         /\ read(mem, PC) = 32 /\ addr \notin 65520 .. 65529
         /\ PC \notin 65520 .. 65529
         /\ read(jsr.m.mem, addr) = 96)
            => LET rts == step(jsr.m, << >>, TRUE)
               IN  rts.m.PC = (PC + 3) % 65536 /\ rts.m.SP = SP

\* C20: with $10FF = $80 and $1000 = $20, a step that executes JMP ($10FF)
\* sets PC to $2080 on the 6502, and to mem($1100) * 256 + $80 on the 65C02.
C20_JmpIndirect ==
    [][(/\ Stepped /\ last'.how = "executed"
        /\ read(mem, PC) = 108 /\ read(mem, PC + 1) = 255 /\ read(mem, PC + 2) = 16
        /\ read(mem, 4351) = 128 /\ read(mem, 4096) = 32)
        => PC' = IF cpuType = "6502" THEN 8320 ELSE read(mem, 4352) * 256 + 128]_vars

-----------------------------------------------------------------------------
(* Arithmetic and branches: one instruction, stepped once (basic_test.ts)  *)

BranchOps == {16, 48, 80, 112, 144, 176, 208, 240}

\* the instruction's address, opcode and operand, and A and Status before it:
\* ADC #v and SBC #v for every A, a branch at $0200 and one at $02FD; the
\* carry is clear or set, the other flags all clear or all set
AluCases ==
    LET AluOperands == {0, 1, 10, 15, 16, 20, 63, 64, 127, 128, 129, 191, 192, 250,
                        254, 255}
        AluStatus == {FlagUnused, FlagUnused + FlagCarry, 254, 255}
        BranchOffsets == {0, 5, 251, 253, 254}
    IN  {[base |-> 512, op |-> op, operand |-> v, a |-> a, p |-> p] :
            op \in {105, 233}, v \in AluOperands, a \in 0 .. 255, p \in AluStatus}
        \cup {[base |-> b, op |-> op, operand |-> v, a |-> 0, p |-> p] :
            b \in {512, 765}, op \in BranchOps, v \in BranchOffsets, p \in AluStatus}

InitAlu ==
    \E c \in AluCases :
        /\ A = c.a /\ X = 0 /\ Y = 0 /\ SP = 255
        /\ Status = c.p
        /\ mem = Bytes(c.base, <<c.op, c.operand>>)
        /\ PC = c.base
        /\ cycles = 0
        /\ cpuType = "6502"
        /\ breakpoints = << >>
        /\ waitingForInput = FALSE
        /\ inputBuffer = << >>
        /\ fds = StandardFds /\ nextFd = 3
        /\ commandLineArgs = <<ProgramPath>>
        /\ fsError = FALSE
        /\ stepMode = NoMode
        /\ stopOnEntry = FALSE
        /\ configDone = FALSE
        /\ debugInfo = << >>
        /\ loop = Idle
        /\ timers = 0
        /\ lastEvent = "none"
        /\ terminated = FALSE
        /\ exitCode = NoExit
        /\ thrown = FALSE
        /\ last = NoLast

\* cpu.step() of the instruction under test
aluStep == cycles = 0 /\ unitStep

SpecAlu == InitAlu /\ [][aluStep]_vars

\* this step executed the instruction named name
Executes(name) ==
    Stepped /\ last'.how = "executed" /\ OPCODES[read(mem, PC)].name = name

\* C21: for all A, m in 0..255 and carry-in C, after ADC(m) A' is
\* (A + m + C) mod 256, the carry-out is floor((A + m + C) / 256), V is set
\* iff both operands have the same sign and A' has the other sign, Z and N
\* reflect A', and no other flag changes.
C21_AdcBinary ==
    [][Executes("ADC_imm") =>
        LET m == read(mem, PC + 1)
            C == IF getFlag(Status, FlagCarry) THEN 1 ELSE 0
        IN  /\ A' = (A + m + C) % 256
            /\ Status' \in 0 .. 255
            /\ getFlag(Status', FlagCarry) = ((A + m + C) \div 256 = 1)
            /\ getFlag(Status', FlagOverflow)
                   = (\/ A < 128 /\ m < 128 /\ A' >= 128
                      \/ A >= 128 /\ m >= 128 /\ A' < 128)
            /\ getFlag(Status', FlagZero) = (A' = 0)
            /\ getFlag(Status', FlagNegative) = (A' >= 128)
            /\ \A f \in {FlagInterruptDisable, FlagDecimal, FlagBreak, FlagUnused} :
                   getFlag(Status', f) = getFlag(Status, f)]_vars

\* 250 + 10 + carry = 5 with the carry set (testADCCarry)
C21_Witness ==
    /\ last.how = "executed" /\ read(mem, last.pc) = 105
    /\ read(mem, last.pc + 1) = 10 /\ A = 5 /\ getFlag(Status, FlagCarry)

\* C22: SBC(m) with the carry set yields A' = (A - m) mod 256 and a carry-out
\* of 1 exactly when A >= m; in general SBC(m) produces the same A and flags
\* as ADC(m XOR $FF).
C22_SbcIsAdcOfComplement ==
    [][Executes("SBC_imm") =>
        LET m == read(mem, PC + 1)
            C == IF getFlag(Status, FlagCarry) THEN 1 ELSE 0
            sum == A + (255 - m) + C
        IN  /\ getFlag(Status, FlagCarry)
                => A' = (A - m) % 256 /\ getFlag(Status', FlagCarry) = (A >= m)
            /\ A' = sum % 256
            /\ Status' \in 0 .. 255
            /\ getFlag(Status', FlagCarry) = (sum > 255)
            /\ getFlag(Status', FlagOverflow)
                   = (\/ A < 128 /\ 255 - m < 128 /\ A' >= 128
                      \/ A >= 128 /\ 255 - m >= 128 /\ A' < 128)
            /\ getFlag(Status', FlagZero) = (A' = 0)
            /\ getFlag(Status', FlagNegative) = (A' >= 128)
            /\ \A f \in {FlagInterruptDisable, FlagDecimal, FlagBreak, FlagUnused} :
                   getFlag(Status', f) = getFlag(Status, f)]_vars

\* 10 - 20 with the carry set: A = 246 and a borrow (carry clear)
C22_Witness ==
    /\ last.how = "executed" /\ read(mem, last.pc) = 233
    /\ read(mem, last.pc + 1) = 20 /\ A = 246 /\ ~getFlag(Status, FlagCarry)
    /\ getFlag(Status, FlagNegative)

\* the condition the branch opcode op tests, on Status p
BranchTaken(op, p) ==
    CASE op = 16  -> ~getFlag(p, FlagNegative)
      [] op = 48  -> getFlag(p, FlagNegative)
      [] op = 80  -> ~getFlag(p, FlagOverflow)
      [] op = 112 -> getFlag(p, FlagOverflow)
      [] op = 144 -> ~getFlag(p, FlagCarry)
      [] op = 176 -> getFlag(p, FlagCarry)
      [] op = 208 -> ~getFlag(p, FlagZero)
      [] op = 240 -> getFlag(p, FlagZero)

\* C23: a step that executes a conditional branch returns 2 cycles when the
\* branch is not taken, 3 when it is taken to a target in the page of the
\* following instruction, and 4 when it is taken across a page boundary.
C23_BranchCycles ==
    [][(Stepped /\ last'.how = "executed" /\ read(mem, PC) \in BranchOps) =>
        last'.ret = IF ~BranchTaken(read(mem, PC), Status) THEN 2
                    ELSE IF PC' \div 256 = (PC + 2) \div 256 THEN 3 ELSE 4]_vars

-----------------------------------------------------------------------------
(* Memory driven directly: write and writeWord on a new Memory             *)

\* at most MaxWrites calls are made
MaxWrites == 2

\* addresses inside and outside 0 .. 65535: -1, $1234, $FFFF, $10000,
\* $11234, $1FFFF
MemAddrs == {-1, 4660, 65535, 65536, 70196, 131071}

\* $1234, $FF00 and $00FF
MemWords == {4660, 65280, 255}

InitMem == InitLaunch([image |-> << >>, cpu |-> "6502", di |-> << >>], FALSE)

\* memory.write(a, v)
memWrite ==
    /\ last.n < MaxWrites
    /\ \E a \in MemAddrs, v \in MemWords :
        /\ mem' = write(mem, a, v)
        /\ last' = [how |-> "write", address |-> a, value |-> v, n |-> last.n + 1]
    /\ UNCHANGED <<cpuVars, cpuType, breakpoints, hostVars, sessionVars, lastEvent,
                   terminated, exitCode>>

\* memory.writeWord(a, v)
memWriteWord ==
    /\ last.n < MaxWrites
    /\ \E a \in MemAddrs, v \in MemWords :
        /\ mem' = writeWord(mem, a, v)
        /\ last' = [how |-> "writeWord", address |-> a, value |-> v, n |-> last.n + 1]
    /\ UNCHANGED <<cpuVars, cpuType, breakpoints, hostVars, sessionVars, lastEvent,
                   terminated, exitCode>>

SpecMem == InitMem /\ [][memWrite \/ memWriteWord]_vars

\* this.data[k], the array cell itself
dataCell(mm, k) == IF k \in DOMAIN mm THEN mm[k] ELSE 0

\* C24: for every address a (also $FFFF and values outside 0..65535) and
\* every 16-bit value v, writeWord(a, v) followed by readWord(a) returns v,
\* the low byte is stored at a mod 65536 and the high byte at (a + 1) mod
\* 65536; single-byte reads and writes at a and a + 65536 refer to one cell.
C24_WordRoundTrip ==
    [][(last'.n # last.n) =>
        LET a == last'.address
            v == last'.value
        IN  /\ last'.how = "writeWord" =>
                /\ readWord(mem', a) = v
                /\ dataCell(mem', a % 65536) = v % 256
                /\ dataCell(mem', (a + 1) % 65536) = v \div 256
            /\ last'.how = "write" =>
                /\ read(mem', a) = v % 256
                /\ read(mem', a + 65536) = v % 256
                /\ mem' = write(mem, a + 65536, v)
                /\ dataCell(mem', a % 65536) = v % 256
            /\ DOMAIN mem' \subseteq 0 .. 65535]_vars

\* writeWord($FFFF, $1234): $34 at $FFFF and $12 at $0000
C24_Witness ==
    /\ last.how = "writeWord" /\ last.address = 65535 /\ last.value = 4660
    /\ dataCell(mem, 65535) = 52 /\ dataCell(mem, 0) = 18

-----------------------------------------------------------------------------
(* Line lookup on debug info of two spans (debugInfo_overlap_test.ts,      *)
(* debugInfo_lookup_test.ts)                                               *)

\* spans at $1000 and $1032 of size 0, 10 and 100, with an assembly line, a C
\* line or no line
LookupSpans ==
    {Span(start, size, type, line) :
        start \in {4096, 4146}, size \in {0, 10, 100}, type \in {0, 1}, line \in BOOLEAN}

\* the addresses looked up: around the starts and ends of the spans
LookupAddrs == {4095, 4096, 4105, 4106, 4146, 4155, 4156, 4195, 4196, 4246}

InitLookup ==
    \E s1 \in LookupSpans, s2 \in LookupSpans :
        InitLaunch([image |-> HookPage, cpu |-> "6502", di |-> <<s1, s2>>], FALSE)

\* info.getLineForAddress(a)
lineLookup ==
    /\ \E a \in LookupAddrs :
        last' = [how |-> "line", address |-> a,
                 line |-> getLineForAddress(debugInfo, a), n |-> 1 - last.n]
    /\ UNCHANGED <<cpuVars, cpuType, breakpoints, mem, hostVars, sessionVars, lastEvent,
                   terminated, exitCode>>

SpecLookup == InitLookup /\ [][lineLookup]_vars

\* the spans with a line that contain a, in the half-open sense
Containing(a) ==
    {i \in 1 .. Len(debugInfo) :
        /\ debugInfo[i].line
        /\ debugInfo[i].start <= a /\ a < debugInfo[i].start + debugInfo[i].size}

\* C25: when several spans contain a, getLineForAddress(a) returns a line
\* attached to a smallest-size containing span; the preference for type 1
\* applies only among the lines of that smallest span.
C25_SmallestSpanWins ==
    [][(last'.n # last.n /\ Containing(last'.address) # {}) =>
        /\ last'.line \in Containing(last'.address)
        /\ \A j \in Containing(last'.address) :
               debugInfo[last'.line].size <= debugInfo[j].size]_vars

\* C26: getLineForAddress(a) returns either nothing or a line one of whose
\* spans contains a in the half-open sense absStart <= a < absStart + size;
\* the address absStart + size is never mapped through that span, and an
\* address inside no span yields nothing.
C26_HalfOpenSpans ==
    [][(last'.n # last.n) =>
        /\ last'.line = 0 \/ last'.line \in Containing(last'.address)
        /\ Containing(last'.address) = {} => last'.line = 0]_vars

\* a lookup of the address absStart + size of a span, with no other span over
\* it, found nothing
C26_Witness ==
    /\ last.how = "line" /\ last.address = 4106 /\ last.line = 0
    /\ debugInfo[1] = Span(4096, 10, 1, TRUE) /\ debugInfo[2].start = 4146

-----------------------------------------------------------------------------
(* The session with the client's pause request *)

\* pauseRequest while the guest runs, between two slices: the session class
\* does not override it, so the inherited handler only sends the response
pauseRequest ==
    /\ ~loop.active
    /\ timers > 0
    /\ lastEvent' = "response:pause"
    /\ UNCHANGED <<cpuVars, mem, hostVars, sessionConst, breakpoints, configDone, loop,
                   timers, stepMode, terminated, exitCode, thrown, last>>

SpecHalt == Init /\ [][Next \/ pauseRequest]_vars

\* C28: a halt request made while the guest runs takes effect at a slice
\* boundary: the step mode is None and no further slice is issued after it,
\* so a guest that loops forever can be halted. Once the pause response is
\* the last message sent, no pending timer starts another slice.
C28_HaltStopsSlices ==
    [][(lastEvent = "response:pause" /\ timers > 0)
        => (stepMode = NoMode /\ timers' >= timers)]_vars

-----------------------------------------------------------------------------
(* The session between a stop and the next request *)

\* the session is stopped: the entry stop, or the run loop ended by sending a
\* StoppedEvent, and no slice has been started or scheduled since
StoppedSent ==
    /\ ~loop.active /\ timers = 0
    /\ \/ last = NoLast /\ lastEvent = "stopped:entry"
       \/ last.how = "stepstop" /\ lastEvent = "stopped:step"
       \/ /\ last.how \in {"breakpoint", "trap"} /\ ~waitingForInput
          /\ lastEvent = "stopped:breakpoint"

\* C31: after a stopped event no guest instruction executes until the next
\* continue or step request; console input that arrives while the session is
\* stopped is only buffered and does not start a slice.
C31_InputWhileStopped ==
    [][(StoppedSent /\ inputBuffer' # inputBuffer) => ~loop'.active]_vars

\* C32: at any time at most one slice chain is active: the runLoop invocations
\* scheduled by setTimeout and the one executing are never more than one.
C32_OneSliceChain == timers + (IF loop.active THEN 1 ELSE 0) <= 1

\* C33: once the exit hook has fired the session is terminated for good: the
\* terminated event is the last event sent (it is not sent again and no stopped
\* event follows it) and no guest instruction executes afterwards.
C33_TerminatedForGood ==
    [][/\ terminated' => lastEvent' = "terminated"
       /\ terminated => UNCHANGED <<cpuVars, mem>>]_vars

C35_NextStopsInOwnFrame ==
    [][(last'.how = "stepstop" /\ stepMode.kind = "RunTo"
            /\ stepMode.restoreMode.kind = "Next")
         => SP' = last.sp0]_vars

\* C36: a step-in or step-over that ends in a StoppedEvent('step') has
\* executed at least one guest instruction: the stop is never decided in the
\* first iteration of the runLoop(true) the request itself started
C36_StepMakesProgress ==
    (last.how = "stepstop" /\ last.mode.kind \in {"StepIn", "Next"}) => ~last.ignore

\* C37: at every RTS executed in StepOut mode, whatever the SP, the mode
\* switches to RunTo exactly when the SP the CPU holds after the pull is above
\* the target SP, and the RunTo target is the PC the CPU holds after the RTS
C37_StepOutMatchesRts ==
    [][(stepMode.kind = "StepOut" /\ Stepped /\ last'.how = "executed"
            /\ read(mem, PC) = 96)
         => /\ stepMode'.kind = "RunTo" <=> SP' > stepMode.targetSP
            /\ stepMode'.kind = "RunTo" => PC' = stepMode'.targetPC]_vars

\* C38: in the result of a stack scan the byte pairs of the synthetic frames
\* are pairwise disjoint (the used addresses number two per frame after the
\* current one), every used address lies in $0100+SP+1 .. $01FF, and there
\* are at most maxFrames frames
C38_FramesDisjoint ==
    last.how = "stackTrace"
        => /\ Cardinality(last.usedAddresses) = 2 * (Len(last.frames) - 1)
           /\ last.usedAddresses \subseteq (256 + SP + 1) .. 511
           /\ Len(last.frames) <= last.maxFrames

\* the breakpoint table with the tag g taken off every address, an address
\* left without tags being disarmed
WithoutGroup(bps, g) ==
    [a \in {x \in DOMAIN bps : bps[x] \ {g} # {}} |-> bps[a] \ {g}]

\* C39: on every breakpoint table the CPU can hold, clearBreakpoints(g) takes
\* exactly the tag g off every address and leaves the tags of the other
\* groups as they were, for every group string g, the empty string included
C39_ClearOnlyOwnGroup ==
    \A g \in Groups : clearBreakpoints(breakpoints, g) = WithoutGroup(breakpoints, g)

-----------------------------------------------------------------------------
(* DebugInfo.addSymbol and getSymbolForAddress (debugInfo.ts) *)

\* sym records parsed from one debug file at most
MaxSyms == 3

\* segId of a sym record that has no seg property (undefined)
NoSeg == -1

\* the sym records a debug file may hold for two addresses
Syms ==
    [name : {"a", "b"}, addr : {512, 513}, type : {"lab", "equ"}, segId : {NoSeg, 0}]

\* addSymbol(sym) on the addressToSymbol map
addSymbol(addressToSymbol, sym) ==
    IF sym.addr \notin DOMAIN addressToSymbol
    THEN (sym.addr :> sym) @@ addressToSymbol
    ELSE LET existing == addressToSymbol[sym.addr]
         IN  IF existing.type = "equ" /\ sym.type = "lab"
             THEN [addressToSymbol EXCEPT ![sym.addr] = sym]
             ELSE IF existing.segId = NoSeg /\ sym.segId # NoSeg
             THEN [addressToSymbol EXCEPT ![sym.addr] = sym]
             ELSE addressToSymbol

\* the map after the records of a file are added in file order
RECURSIVE addSymbols(_, _)
addSymbols(addressToSymbol, syms) ==
    IF syms = << >> THEN addressToSymbol
    ELSE addSymbols(addSymbol(addressToSymbol, Head(syms)), Tail(syms))

\* the debug info before any sym line is parsed
InitSym ==
    InitLaunch([image |-> HookPage, cpu |-> "6502",
                di |-> [symbols |-> << >>, addressToSymbol |-> << >>]], FALSE)

\* the parser's case 'sym': the record is kept and handed to addSymbol
parseSym ==
    /\ Len(debugInfo.symbols) < MaxSyms
    /\ \E sym \in Syms :
        /\ \A i \in DOMAIN debugInfo.symbols : debugInfo.symbols[i] # sym
        /\ debugInfo' = [symbols |-> Append(debugInfo.symbols, sym),
                         addressToSymbol |-> addSymbol(debugInfo.addressToSymbol, sym)]
    /\ UNCHANGED <<cpuVars, cpuType, breakpoints, mem, hostVars, stepMode, stopOnEntry,
                   configDone, loop, timers, thrown, lastEvent, terminated, exitCode, last>>

SpecSym == InitSym /\ [][parseSym]_vars

\* the orders in which the parsed records could have stood in the file
Reorderings(syms) ==
    {[i \in DOMAIN syms |-> syms[p[i]]] :
        p \in {q \in [DOMAIN syms -> DOMAIN syms] :
                   \A i, j \in DOMAIN syms : q[i] = q[j] => i = j}}

\* C40: at every address where a parsed record of type lab stands, the
\* preferred symbol is of type lab, and the preferred symbol of every address
\* is the same in whatever order the records are parsed
C40_LabPreferred ==
    /\ \A i \in DOMAIN debugInfo.symbols :
          debugInfo.symbols[i].type = "lab"
              => debugInfo.addressToSymbol[debugInfo.symbols[i].addr].type = "lab"
    /\ \A syms \in Reorderings(debugInfo.symbols) :
          addSymbols(<< >>, syms) = debugInfo.addressToSymbol

====
